---- MODULE Spec2Model ----
(***************************************************************************)
(* A model of claimcheck: the live monitor (WatchSession over FileWatcher) *)
(* and the verification aggregators (verifyClaim, verifyClaimAgainstDiff). *)
(*                                                                         *)
(* Strings of the program are sequences of one-character strings, so that  *)
(* template strings (`${a}:${b}`) are real concatenations.                 *)
(***************************************************************************)
EXTENDS Integers, Sequences, FiniteSets, TLC

\* ------------------------------------------------------------------ bounds
\* Number of lines the environment appends to the session log in one run.
MaxLog == 2
\* Number of times the environment empties the log in one run.
MaxTruncs == 1
\* Number of spellings in the list of variants of one verification.
MaxVariants == 2
\* Length of the short ref strings a caller passes to a git query.
MaxRefChars == 2
\* Number of lines the search tool writes to its output.
MaxOutLines == 2
\* Number of free characters in a line given to the context classifier.
MaxLineChars == 4
\* Number of characters of a term given to the variant generator.
MaxTermChars == 4
\* Number of characters of a quoted value of a claim text.
MaxValueChars == 2
\* Number of claims found in a commit message or a text.
MaxCommitClaims == 2
\* Number of matches the search tool finds for one pattern when a verification is run again.
MaxToolMatches == 2
\* Number of patterns given to searchMultiple.
MaxPatterns == 2
\* Number of lines written to the log in pieces.
MaxChunkLines == 2
\* FileWatcherConfig.debounceMs, in ticks of the clock.
DebounceTicks == 2
\* Ticks of the clock while the debounce timer is watched.
MaxTicks == 5
\* Number of notifications the FSWatcher delivers while the timer is watched.
MaxNotifications == 3

\* ------------------------------------------------------------ strings
Str(s) == <<s>>
Colon == <<":">>
\* The grave accent U+0060, a character no string literal of this notation holds.
Backtick == "GRAVE"
\* `undefined` for an optional string field.
Undefined == <<"undefined">>

RECURSIVE Join(_)
\* Concatenation of a sequence of strings.
Join(parts) == IF parts = <<>> THEN <<>> ELSE Head(parts) \o Join(Tail(parts))

\* x || '' of JavaScript for an optional string.
OrEmpty(x) == IF x = Undefined \/ x = <<>> THEN <<>> ELSE x

\* --------------------------------------------------------- claims, messages
\* ParsedClaim, reduced to the fields the monitor reads.
Claim(action, old, new) == [action |-> action, oldValue |-> old, newValue |-> new]

\* Claims the parser can return (trySimpleParse takes any quoted text as a value).
ClaimAB_C == Claim(<<"r","e","n","a","m","e">>, <<"a",":","b">>, <<"c">>)
ClaimA_BC == Claim(<<"r","e","n","a","m","e">>, <<"a">>, <<"b",":","c">>)
ClaimRmA == Claim(<<"r","e","m","o","v","e">>, <<"a">>, Undefined)
ClaimRmB == Claim(<<"r","e","m","o","v","e">>, <<"b">>, Undefined)

\* The (action, oldValue, newValue) identity of a claim.
Triple(c) == <<c.action, c.oldValue, c.newValue>>

\* A message content: its wording and the claims detectClaims finds in it.
Content(w, claims) == [wording |-> w, claims |-> claims]

\* One line of the session log, as parseSessionLine reads it.
SessionMessage(role, ts, content) == [role |-> role, timestamp |-> ts, content |-> content]

\* The lines the environment may append to the log: a claim, the same claim restated
\* later in other words beside a new one, and a message with three claims of which
\* two are the same.
Lines ==
  { SessionMessage("assistant", 1, Content(1, <<ClaimAB_C>>)),
    SessionMessage("assistant", 2, Content(2, <<ClaimAB_C, ClaimRmB>>)),
    SessionMessage("assistant", 1, Content(3, <<ClaimA_BC, ClaimRmA, ClaimRmA>>)) }

\* extractAssistantMessages: the assistant messages of a piece of log, in order.
extractAssistantMessages(content) == SelectSeq(content, LAMBDA m : m.role = "assistant")

\* FileWatcher.messageKey: role, timestamp and the head of the content.
messageKey(message) == <<message.role, message.timestamp, message.content>>

\* WatchSession.detectClaims: the claims of a message content.
detectClaims(content) == content.claims

\* WatchSession.claimKey: `${action}:${oldValue}:${newValue || ''}`.
claimKey(claim) ==
  Join(<<claim.action, Colon, claim.oldValue, Colon, OrEmpty(claim.newValue)>>)

\* ------------------------------------------------------------------ state
VARIABLES
  file,              \* the session log on disk, a sequence of lines
  appends,           \* lines appended so far
  truncs,            \* truncations so far
  resyncs,           \* history: resynchronisations completed
  autoVerify,        \* WatchSessionConfig.autoVerify
  startPc,           \* FileWatcher.start: "idle", "stat" (awaiting readFile), "done"
  watcher,           \* FileWatcher.watcher is not null
  notify,            \* the FSWatcher has a 'change' event to deliver
  debounceTimer,     \* FileWatcher.debounceTimer is armed and has not fired
  lastSize,          \* FileWatcher.lastSize
  lastContent,       \* FileWatcher.lastContent
  seenMessages,      \* FileWatcher.seenMessages
  runs,              \* the processChange calls awaiting stat or readFile
  processedClaims,   \* WatchSession.processedClaims
  verificationQueue, \* WatchSession.verificationQueue
  isVerifying,       \* WatchSession.isVerifying
  inflight,          \* calls of verifyClaim / verifyClaimAgainstDiff not yet settled
  detected,          \* history: every claim processMessage looked at, and whether it was emitted
  claimEvents,       \* history: the 'claim' events, in order
  started,           \* history: the claims whose verification was started, in order
  verifiedEvents,    \* history: the 'verified' events, in order
  errorEvents,       \* history: the claims whose verification ended in an 'error' event
  stopped,           \* history: stop() was called
  queueAtStop,       \* history: verificationQueue when stop() was called
  startedAtStop,     \* history: Len(started) when stop() was called
  startClaims,       \* history: the claims of the assistant messages start() read
  messageEvents,     \* history: the 'message' events, in order
  fullRead,          \* history: the keys start() or the last resynchronisation read, and
                     \* the number of 'message' events emitted before it
  vr                 \* the aggregators' run (second specification)

watchVars ==
  <<file, appends, truncs, resyncs, autoVerify, startPc, watcher, notify, debounceTimer, lastSize,
    lastContent, seenMessages, runs, processedClaims, verificationQueue, isVerifying,
    inflight, detected, claimEvents, started, verifiedEvents, errorEvents, stopped,
    queueAtStop, startedAtStop, startClaims, messageEvents, fullRead>>

vars == <<watchVars, vr>>

\* The fields of the session that one synchronous stretch of code updates.
SessionState ==
  [ seenMessages |-> seenMessages, processedClaims |-> processedClaims,
    verificationQueue |-> verificationQueue, isVerifying |-> isVerifying,
    inflight |-> inflight, detected |-> detected, claimEvents |-> claimEvents,
    started |-> started, messageEvents |-> messageEvents ]

SetSession(st) ==
  /\ seenMessages' = st.seenMessages
  /\ processedClaims' = st.processedClaims
  /\ verificationQueue' = st.verificationQueue
  /\ isVerifying' = st.isVerifying
  /\ inflight' = st.inflight
  /\ detected' = st.detected
  /\ claimEvents' = st.claimEvents
  /\ started' = st.started
  /\ messageEvents' = st.messageEvents

\* ------------------------------------------------------- WatchSession
StartNextLast(st) ==
  [st EXCEPT !.verificationQueue = SubSeq(@, 1, Len(@) - 1),
             !.inflight = Append(@, st.verificationQueue[Len(st.verificationQueue)]),
             !.started = Append(@, st.verificationQueue[Len(st.verificationQueue)])]

\* One turn of processQueue's while loop up to its await: shift a claim, call the verifier.
StartNext(st) ==
  [st EXCEPT !.verificationQueue = Tail(@),
             !.inflight = Append(@, Head(st.verificationQueue)),
             !.started = Append(@, Head(st.verificationQueue))]

processQueueNoGuard(st) ==
  IF st.verificationQueue = <<>> THEN st
  ELSE StartNext([st EXCEPT !.isVerifying = TRUE])

\* WatchSession.processQueue, from the call to its first await.
processQueue(st) ==
  IF st.isVerifying \/ st.verificationQueue = <<>> THEN st
  ELSE StartNext([st EXCEPT !.isVerifying = TRUE])

\* The body of processMessage's loop for one claim.
ProcessClaim(st, claim) ==
  IF claimKey(claim) \in st.processedClaims
  THEN [st EXCEPT !.detected = Append(@, [claim |-> claim, emitted |-> FALSE])]
  ELSE LET s1 == [st EXCEPT !.processedClaims = @ \cup {claimKey(claim)},
                            !.detected = Append(@, [claim |-> claim, emitted |-> TRUE]),
                            !.claimEvents = Append(@, claim)]
       IN IF autoVerify
          THEN processQueue([s1 EXCEPT !.verificationQueue = Append(@, claim)])
          ELSE s1

RECURSIVE ProcessClaims(_, _)
ProcessClaims(st, claims) ==
  IF claims = <<>> THEN st
  ELSE ProcessClaims(ProcessClaim(st, Head(claims)), Tail(claims))

\* WatchSession.processMessage.
processMessage(st, message) ==
  IF message.role # "assistant" THEN st
  ELSE ProcessClaims(st, detectClaims(message.content))

\* WatchSession.getStats.
getStats ==
  [ claimsDetected |-> Cardinality(processedClaims),
    claimsVerified |-> Cardinality(processedClaims) - Len(verificationQueue),
    claimsPending |-> Len(verificationQueue) ]

\* ------------------------------------------------------- FileWatcher
\* The keys of the assistant messages of a content.
SeenIn(content) ==
  { messageKey(extractAssistantMessages(content)[i]) :
      i \in 1..Len(extractAssistantMessages(content)) }

RECURSIVE EmitMessagesUnseenOrNot(_, _)
EmitMessagesUnseenOrNot(st, messages) ==
  IF messages = <<>> THEN st
  ELSE EmitMessagesUnseenOrNot(
         processMessage([st EXCEPT !.seenMessages = @ \cup {messageKey(Head(messages))},
                                   !.messageEvents = Append(@, Head(messages))],
                        Head(messages)),
         Tail(messages))

RECURSIVE EmitMessages(_, _)
\* processChange's loop over the messages of the new content: the 'message' event
\* runs the session's handler before the next message is looked at.
EmitMessages(st, messages) ==
  IF messages = <<>> THEN st
  ELSE LET message == Head(messages) IN
       IF messageKey(message) \in st.seenMessages
       THEN EmitMessages(st, Tail(messages))
       ELSE EmitMessages(
              processMessage([st EXCEPT !.seenMessages = @ \cup {messageKey(message)},
                                        !.messageEvents = Append(@, message)],
                             message),
              Tail(messages))

\* The elements of a sequence.
Range(seq) == { seq[i] : i \in 1..Len(seq) }

\* content.slice(n).
Slice(content, n) == SubSeq(content, n + 1, Len(content))

RemoveAt(seq, i) == SubSeq(seq, 1, i - 1) \o SubSeq(seq, i + 1, Len(seq))

ResyncSeenNoClear(seen, content) == seen \cup SeenIn(content)

\* processChange's truncation branch: seenMessages.clear(), then mark the messages
\* of the content read.
ResyncSeen(seen, content) == SeenIn(content)

\* A processChange call awaiting stat().
RunStat == [pc |-> "stat", size |-> 0]

\* ------------------------------------------------------------ actions
\* The environment appends a line to the log.
AppendLine ==
  /\ appends < MaxLog
  /\ \E line \in Lines : file' = Append(file, line)
  /\ appends' = appends + 1
  /\ notify' = watcher
  /\ UNCHANGED <<truncs, resyncs, autoVerify, startPc, watcher, debounceTimer, lastSize,
                 lastContent, seenMessages, runs, processedClaims, verificationQueue,
                 isVerifying, inflight, detected, claimEvents, messageEvents, started, verifiedEvents,
                 errorEvents, stopped, queueAtStop, startedAtStop, startClaims, vr, fullRead>>

\* The environment truncates the log: the file is emptied, to be written anew.
TruncateLog ==
  /\ truncs < MaxTruncs
  /\ Len(file) > 0
  /\ file' = <<>>
  /\ truncs' = truncs + 1
  /\ notify' = watcher
  /\ UNCHANGED <<resyncs, appends, autoVerify, startPc, watcher, debounceTimer, lastSize,
                 lastContent, seenMessages, runs, processedClaims, verificationQueue,
                 isVerifying, inflight, detected, claimEvents, messageEvents, started, verifiedEvents,
                 errorEvents, stopped, queueAtStop, startedAtStop, startClaims, vr, fullRead>>

\* FileWatcher.start up to the end of stat().
StartStat ==
  /\ startPc = "idle"
  /\ lastSize' = Len(file)
  /\ startPc' = "stat"
  /\ UNCHANGED <<notify, file, appends, truncs, resyncs, autoVerify, watcher, debounceTimer,
                 lastContent, seenMessages, runs, processedClaims, verificationQueue,
                 isVerifying, inflight, detected, claimEvents, messageEvents, started, verifiedEvents,
                 errorEvents, stopped, queueAtStop, startedAtStop, startClaims, vr, fullRead>>

\* FileWatcher.start from the end of readFile(): mark the messages seen, watch, 'ready'.
StartRead ==
  /\ startPc = "stat"
  /\ lastContent' = file
  /\ seenMessages' = seenMessages \cup SeenIn(file)
  /\ watcher' = TRUE
  /\ startPc' = "done"
  /\ fullRead' = [keys |-> SeenIn(file), at |-> Len(messageEvents)]
  /\ startClaims' =
       UNION { { Triple(c) : c \in Range(detectClaims(m.content)) } :
                 m \in Range(extractAssistantMessages(file)) }
  /\ UNCHANGED <<notify, file, appends, truncs, resyncs, autoVerify, debounceTimer, lastSize, runs,
                 processedClaims, verificationQueue, isVerifying, inflight, detected,
                 claimEvents, messageEvents, started, verifiedEvents, errorEvents, stopped,
                 queueAtStop, startedAtStop, vr>>

\* The FSWatcher delivers a 'change' event: handleChange (re)arms the debounce timer.
HandleChange ==
  /\ watcher
  /\ notify
  /\ notify' = FALSE
  /\ debounceTimer' = TRUE
  /\ UNCHANGED <<file, appends, truncs, resyncs, autoVerify, startPc, watcher, lastSize,
                 lastContent, seenMessages, runs, processedClaims, verificationQueue,
                 isVerifying, inflight, detected, claimEvents, messageEvents, started, verifiedEvents,
                 errorEvents, stopped, queueAtStop, startedAtStop, startClaims, vr, fullRead>>

\* The debounce timer fires: processChange is called and awaits stat().
TimerFires ==
  /\ debounceTimer
  /\ debounceTimer' = FALSE
  /\ runs' = Append(runs, RunStat)
  /\ UNCHANGED <<notify, file, appends, truncs, resyncs, autoVerify, startPc, watcher, lastSize,
                 lastContent, seenMessages, processedClaims, verificationQueue,
                 isVerifying, inflight, detected, claimEvents, messageEvents, started, verifiedEvents,
                 errorEvents, stopped, queueAtStop, startedAtStop, startClaims, vr, fullRead>>

\* processChange after stat(): return, resynchronise, or go on to read the growth.
ChangeStat ==
  \E i \in 1..Len(runs) :
    /\ runs[i].pc = "stat"
    /\ IF Len(file) <= lastSize
       THEN IF Len(file) < lastSize
            THEN /\ lastSize' = Len(file)
                 /\ runs' = [runs EXCEPT ![i] = [pc |-> "resync", size |-> Len(file)]]
            ELSE /\ runs' = RemoveAt(runs, i)
                 /\ UNCHANGED lastSize
       ELSE /\ runs' = [runs EXCEPT ![i] = [pc |-> "read", size |-> Len(file)]]
            /\ UNCHANGED lastSize
    /\ UNCHANGED <<notify, file, appends, truncs, resyncs, autoVerify, startPc, watcher, debounceTimer,
                   lastContent, seenMessages, processedClaims, verificationQueue,
                   isVerifying, inflight, detected, claimEvents, messageEvents, started,
                   verifiedEvents, errorEvents, stopped, queueAtStop, startedAtStop,
                   startClaims, vr, fullRead>>

\* processChange's truncation branch after readFile(): forget and re-mark.
ChangeResync ==
  \E i \in 1..Len(runs) :
    /\ runs[i].pc = "resync"
    /\ lastContent' = file
    /\ fullRead' = [keys |-> SeenIn(file), at |-> Len(messageEvents)]
    /\ seenMessages' = ResyncSeen(seenMessages, file)
    /\ resyncs' = resyncs + 1
    /\ runs' = RemoveAt(runs, i)
    /\ UNCHANGED <<notify, file, appends, truncs, autoVerify, startPc, watcher, debounceTimer,
                   lastSize, processedClaims, verificationQueue, isVerifying, inflight,
                   detected, claimEvents, messageEvents, started, verifiedEvents, errorEvents, stopped,
                   queueAtStop, startedAtStop, startClaims, vr>>

\* processChange's growth branch after readFile(): emit the new messages; each
\* 'message' runs processMessage, which may call processQueue.
ChangeRead ==
  \E i \in 1..Len(runs) :
    /\ runs[i].pc = "read"
    /\ lastSize' = runs[i].size
    /\ lastContent' = file
    /\ SetSession(EmitMessages(SessionState,
                               extractAssistantMessages(Slice(file, Len(lastContent)))))
    /\ runs' = RemoveAt(runs, i)
    /\ UNCHANGED <<notify, file, appends, truncs, resyncs, autoVerify, startPc, watcher, debounceTimer,
                   verifiedEvents, errorEvents, stopped, queueAtStop, startedAtStop,
                   startClaims, vr, fullRead>>

VerifySettlesErrorEnds ==
  \E i \in 1..Len(inflight), ok \in BOOLEAN :
    /\ IF ok
       THEN verifiedEvents' = Append(verifiedEvents, inflight[i]) /\ UNCHANGED errorEvents
       ELSE errorEvents' = Append(errorEvents, inflight[i]) /\ UNCHANGED verifiedEvents
    /\ LET st == [SessionState EXCEPT !.inflight = RemoveAt(inflight, i)]
       IN SetSession(IF ~ok THEN st
                     ELSE IF st.verificationQueue # <<>>
                          THEN StartNext(st)
                          ELSE [st EXCEPT !.isVerifying = FALSE])
    /\ UNCHANGED <<notify, file, appends, truncs, resyncs, autoVerify, startPc, watcher,
                   debounceTimer, lastSize, lastContent, runs, stopped, queueAtStop,
                   startedAtStop, startClaims, vr, fullRead>>

\* A verification settles: processQueue emits 'verified' or 'error' and goes round
\* its loop, to the next await or to the end.
VerifySettles ==
  \E i \in 1..Len(inflight), ok \in BOOLEAN :
    /\ IF ok
       THEN verifiedEvents' = Append(verifiedEvents, inflight[i]) /\ UNCHANGED errorEvents
       ELSE errorEvents' = Append(errorEvents, inflight[i]) /\ UNCHANGED verifiedEvents
    /\ LET st == [SessionState EXCEPT !.inflight = RemoveAt(inflight, i)]
       IN SetSession(IF st.verificationQueue # <<>>
                     THEN StartNext(st)
                     ELSE [st EXCEPT !.isVerifying = FALSE])
    /\ UNCHANGED <<notify, file, appends, truncs, resyncs, autoVerify, startPc, watcher, debounceTimer,
                   lastSize, lastContent, runs, stopped, queueAtStop, startedAtStop,
                   startClaims, vr, fullRead>>

\* WatchSession.stop -> FileWatcher.stop: clear the timer, close the watcher.
Stop ==
  /\ startPc = "done"
  /\ ~stopped
  /\ debounceTimer' = FALSE
  /\ watcher' = FALSE
  /\ notify' = FALSE
  /\ stopped' = TRUE
  /\ queueAtStop' = verificationQueue
  /\ startedAtStop' = Len(started)
  /\ UNCHANGED <<file, appends, truncs, resyncs, autoVerify, startPc, lastSize, lastContent,
                 seenMessages, runs, processedClaims, verificationQueue, isVerifying,
                 inflight, detected, claimEvents, messageEvents, started, verifiedEvents, errorEvents,
                 startClaims, vr, fullRead>>

Init ==
  /\ file = <<>>
  /\ appends = 0
  /\ truncs = 0
  /\ resyncs = 0
  /\ autoVerify \in BOOLEAN
  /\ startPc = "idle"
  /\ watcher = FALSE
  /\ notify = FALSE
  /\ debounceTimer = FALSE
  /\ lastSize = 0
  /\ lastContent = <<>>
  /\ seenMessages = {}
  /\ runs = <<>>
  /\ processedClaims = {}
  /\ verificationQueue = <<>>
  /\ isVerifying = FALSE
  /\ inflight = <<>>
  /\ detected = <<>>
  /\ claimEvents = <<>>
  /\ started = <<>>
  /\ verifiedEvents = <<>>
  /\ errorEvents = <<>>
  /\ stopped = FALSE
  /\ queueAtStop = <<>>
  /\ startedAtStop = 0
  /\ startClaims = {}
  /\ messageEvents = <<>>
  /\ fullRead = [keys |-> {}, at |-> 0]
  /\ vr = [pc |-> "off"]

Next ==
  \/ AppendLine
  \/ TruncateLog
  \/ StartStat
  \/ StartRead
  \/ HandleChange
  \/ TimerFires
  \/ ChangeStat
  \/ ChangeResync
  \/ ChangeRead
  \/ VerifySettles
  \/ Stop

Spec == Init /\ [][Next]_vars

\* The monitor when every call of the verifier terminates, resolving or rejecting.
SpecTerminating == Spec /\ WF_vars(VerifySettles)

\* ============================================================ aggregators
\* Second and third specifications: one call of verifyClaim (SpecVerify) and one
\* call of verifyClaimAgainstDiff (SpecDiff), over bounded inputs.

DigitChars == <<"0", "1", "2", "3", "4", "5", "6", "7", "8", "9">>

RECURSIVE NumberString(_)
\* A number in a template string.
NumberString(n) ==
  IF n < 10 THEN <<DigitChars[n + 1]>>
  ELSE NumberString(n \div 10) \o <<DigitChars[(n % 10) + 1]>>

FileA == <<"a", ".", "t", "s">>
FileDotA == <<".", "/", "a", ".", "t", "s">>
FileB == <<"b", ".", "m", "d">>
FileOld == <<"o", ".", "t", "s">>

\* The spellings generateVariants may list for a term: one long, two shorter ones
\* of equal length.
VariantPool == { <<"u", "_", "i", "d">>, <<"u", "I", "d">>, <<"u", "i", "d">> }

\* The lists variants.all may be: the original first, no entry twice.
VariantLists ==
  { vs \in UNION { [1..n -> VariantPool] : n \in 1..MaxVariants } :
      \A i, j \in 1..Len(vs) : i # j => vs[i] # vs[j] }

\* A match as search returns it, with the priority detectContext gives its line.
Match(path, line, classified) == [file |-> path, line |-> line, classified |-> classified]

\* The matches a search may report, in ripgrep's output order.
MatchOrder ==
  << Match(FileDotA, 1, "high"), Match(FileDotA, 1, "low"),
     Match(FileA, 2, "medium"), Match(FileB, 1, "low") >>

\* search's results: a failure (tool missing, exit code >= 2), or the matches of a
\* run, at most one for each line of a file.
SearchFailure == [success |-> FALSE, references |-> <<>>]

SearchResults ==
  { SearchFailure } \cup
  { [success |-> TRUE, references |-> SelectSeq(MatchOrder, LAMBDA m : m \in S)] :
      S \in { T \in SUBSET Range(MatchOrder) :
                \A x, y \in T : (x.file = y.file /\ x.line = y.line) => x = y } }

\* The Reference verifyClaim makes of a match: the variant stamped, the priority
\* attached when contexts are detected.
Enhance(ref, variant, detectContexts) ==
  [ file |-> ref.file, line |-> ref.line, variant |-> variant,
    priority |-> IF detectContexts THEN ref.classified ELSE "undefined" ]

refKeyLineOnly(ref) == NumberString(ref.line)

\* The key of deduplicateReferences: `${ref.file}:${ref.line}`.
refKey(ref) == Join(<<ref.file, Colon, NumberString(ref.line)>>)

\* Map.set: replace the value of a key in place, or add the key at the end.
MapSet(map, key, value) ==
  IF \E i \in 1..Len(map) : map[i].key = key
  THEN [i \in 1..Len(map) |-> IF map[i].key = key THEN [key |-> key, value |-> value]
                                                   ELSE map[i]]
  ELSE Append(map, [key |-> key, value |-> value])

\* Map.get: the value of a key; Undefined when the key is absent.
MapHas(map, key) == \E i \in 1..Len(map) : map[i].key = key
MapGet(map, key) == map[CHOOSE i \in 1..Len(map) : map[i].key = key].value

\* Array.from(map.values()).
MapValues(map) == [i \in 1..Len(map) |-> map[i].value]

DedupKeepLast(seen, ref) ==
  IF ~MapHas(seen, refKey(ref))
     \/ Len(ref.variant) <= Len(MapGet(seen, refKey(ref)).variant)
  THEN MapSet(seen, refKey(ref), ref)
  ELSE seen

\* The body of deduplicateReferences' loop.
DedupStep(seen, ref) ==
  IF ~MapHas(seen, refKey(ref))
     \/ Len(ref.variant) < Len(MapGet(seen, refKey(ref)).variant)
  THEN MapSet(seen, refKey(ref), ref)
  ELSE seen

RECURSIVE DedupLoop(_, _)
DedupLoop(seen, references) ==
  IF references = <<>> THEN seen
  ELSE DedupLoop(DedupStep(seen, Head(references)), Tail(references))

\* deduplicateReferences.
deduplicateReferences(references) == MapValues(DedupLoop(<<>>, references))

\* filterByMinPriority's table.
priorityOrder(p) == CASE p = "high" -> 3 [] p = "medium" -> 2 [] p = "low" -> 1

filterAboveMinPriority(references, minPriority) ==
  SelectSeq(references,
            LAMBDA ref : priorityOrder(IF ref.priority = "undefined" THEN "high"
                                       ELSE ref.priority)
                         > priorityOrder(minPriority))

\* filterByMinPriority.
filterByMinPriority(references, minPriority) ==
  SelectSeq(references,
            LAMBDA ref : priorityOrder(IF ref.priority = "undefined" THEN "high"
                                       ELSE ref.priority)
                         >= priorityOrder(minPriority))

\* verifyClaim's loop body after `await search(...)`.
VerifySearched(v, result) ==
  LET variant == v.variants[v.i]
      refs == [k \in 1..Len(result.references) |->
                 Enhance(result.references[k], variant, v.detectContexts)]
  IN IF result.success /\ Len(result.references) > 0
     THEN [v EXCEPT !.i = @ + 1,
                    !.variantResults = Append(@, [variant |-> variant, matches |-> refs]),
                    !.allReferences = @ \o refs,
                    !.filesWithMatches = @ \cup { refs[k].file : k \in 1..Len(refs) }]
     ELSE IF ~result.success
          THEN [v EXCEPT !.i = @ + 1,
                         !.searchFailed = TRUE,
                         !.variantResults =
                            Append(@, [variant |-> variant, matches |-> <<>>])]
          ELSE [v EXCEPT !.i = @ + 1]

VerdictBeforeFilter(v, deduped, remaining) == deduped = <<>>

\* verifyClaim's `verified: deduped.length === 0`, deduped being the filtered list.
Verdict(v, deduped, remaining) == remaining = <<>>

\* verifyClaim from the end of its loop to its return.
VerifyReturn(v) ==
  LET deduped == deduplicateReferences(v.allReferences)
      remaining == IF v.minPriority # "undefined"
                   THEN filterByMinPriority(deduped, v.minPriority)
                   ELSE deduped
  IN [v EXCEPT !.pc = "done",
               !.deduped = deduped,
               !.outcome = "returned",
               !.result = [ verified |-> Verdict(v, deduped, remaining),
                            remainingReferences |-> remaining,
                            variants |-> v.variantResults,
                            summary |-> [ totalFilesSearched |-> Cardinality(v.filesWithMatches),
                                          filesWithMatches |-> Cardinality(v.filesWithMatches),
                                          totalMatches |-> Len(remaining) ] ]]

NoResult ==
  [ verified |-> FALSE, remainingReferences |-> <<>>, variants |-> <<>>,
    summary |-> [totalFilesSearched |-> 0, filesWithMatches |-> 0, totalMatches |-> 0] ]

\* verifyClaim up to its first search.
VerifyCall(variants, detectContexts, minPriority) ==
  [ pc |-> "search", variants |-> variants, i |-> 1,
    detectContexts |-> detectContexts, minPriority |-> minPriority,
    variantResults |-> <<>>, allReferences |-> <<>>, filesWithMatches |-> {},
    searchFailed |-> FALSE, deduped |-> <<>>, outcome |-> "pending",
    result |-> NoResult ]

WatchIdle ==
  /\ file = <<>> /\ appends = 0 /\ truncs = 0 /\ resyncs = 0 /\ autoVerify = TRUE
  /\ startPc = "idle" /\ watcher = FALSE /\ notify = FALSE /\ debounceTimer = FALSE
  /\ lastSize = 0 /\ lastContent = <<>> /\ seenMessages = {} /\ runs = <<>>
  /\ processedClaims = {} /\ verificationQueue = <<>> /\ isVerifying = FALSE
  /\ inflight = <<>> /\ detected = <<>> /\ claimEvents = <<>> /\ started = <<>>
  /\ verifiedEvents = <<>> /\ errorEvents = <<>> /\ stopped = FALSE
  /\ queueAtStop = <<>> /\ startedAtStop = 0 /\ startClaims = {}
  /\ messageEvents = <<>> /\ fullRead = [keys |-> {}, at |-> 0]

InitVerify ==
  /\ WatchIdle
  /\ \E variants \in VariantLists, detectContexts \in BOOLEAN,
        minPriority \in {"undefined", "high", "medium", "low"} :
       vr = VerifyCall(variants, detectContexts, minPriority)

\* A search of verifyClaim settles.
VerifySearch ==
  /\ vr.pc = "search"
  /\ vr.i <= Len(vr.variants)
  /\ \E result \in SearchResults : vr' = VerifySearched(vr, result)
  /\ UNCHANGED watchVars

\* verifyClaim returns.
VerifyDone ==
  /\ vr.pc = "search"
  /\ vr.i > Len(vr.variants)
  /\ vr' = VerifyReturn(vr)
  /\ UNCHANGED watchVars

NextVerify == VerifySearch \/ VerifyDone

SpecVerify == InitVerify /\ [][NextVerify]_vars

\* ------------------------------------------------- verifyClaim run again
\* Tenth specification: verifyClaim called twice with the same claim and options
\* on an unchanged tree. The search tool finds the same matches for a pattern in
\* both runs; the order in which it writes them is its own in each run.

\* What the tool finds for a pattern: that it fails, or a set of matches, at most
\* one for each line of a file.
ToolAnswers ==
  { [failed |-> TRUE, matches |-> {}] } \cup
  { [failed |-> FALSE, matches |-> T] :
      T \in { U \in SUBSET Range(MatchOrder) :
                /\ Cardinality(U) <= MaxToolMatches
                /\ \A x, y \in U : (x.file = y.file /\ x.line = y.line) => x = y } }

\* The orders in which a set of matches may be written.
Orderings(S) ==
  { o \in [1..Cardinality(S) -> S] : \A i, j \in 1..Cardinality(S) : o[i] = o[j] => i = j }

\* The results search may return for an answer of the tool.
ToolResults(answer) ==
  IF answer.failed THEN { SearchFailure }
  ELSE { [success |-> TRUE, references |-> o] : o \in Orderings(answer.matches) }

InitRerun ==
  /\ WatchIdle
  /\ \E variants \in VariantLists, detectContexts \in BOOLEAN,
        minPriority \in {"undefined", "high", "medium", "low"} :
       \E tool \in [Range(variants) -> ToolAnswers] :
         vr = [ pc |-> "first", tool |-> tool,
                run |-> VerifyCall(variants, detectContexts, minPriority),
                first |-> NoResult, second |-> NoResult ]

\* A search of the running verifyClaim settles.
RerunSearch ==
  /\ vr.pc \in {"first", "second"}
  /\ vr.run.i <= Len(vr.run.variants)
  /\ \E result \in ToolResults(vr.tool[vr.run.variants[vr.run.i]]) :
       vr' = [vr EXCEPT !.run = VerifySearched(vr.run, result)]
  /\ UNCHANGED watchVars

\* The first call returns and the caller calls verifyClaim again.
RerunFirstDone ==
  /\ vr.pc = "first"
  /\ vr.run.i > Len(vr.run.variants)
  /\ vr' = [vr EXCEPT !.pc = "second",
                      !.first = VerifyReturn(vr.run).result,
                      !.run = VerifyCall(vr.run.variants, vr.run.detectContexts,
                                         vr.run.minPriority)]
  /\ UNCHANGED watchVars

\* The second call returns.
RerunSecondDone ==
  /\ vr.pc = "second"
  /\ vr.run.i > Len(vr.run.variants)
  /\ vr' = [vr EXCEPT !.pc = "done", !.second = VerifyReturn(vr.run).result]
  /\ UNCHANGED watchVars

NextRerun == RerunSearch \/ RerunFirstDone \/ RerunSecondDone

SpecRerun == InitRerun /\ [][NextRerun]_vars

\* ------------------------------------------------------------ git queries
MaxRefLength == 256

Letters ==
  { "a", "b", "c", "d", "e", "f", "g", "h", "i", "j", "k", "l", "m", "n", "o", "p", "q",
    "r", "s", "t", "u", "v", "w", "x", "y", "z", "A", "B", "C", "D", "E", "F", "G", "H",
    "I", "J", "K", "L", "M", "N", "O", "P", "Q", "R", "S", "T", "U", "V", "W", "X", "Y",
    "Z" }

\* The characters of /^[a-zA-Z0-9/_.\-^~@:]+$/.
RefChars == Letters \cup Range(DigitChars) \cup { "/", "_", ".", "-", "^", "~", "@", ":" }

isValidGitRefNoLength(ref) ==
  IF ref = Undefined \/ Len(ref) = 0 THEN FALSE
  ELSE \A i \in 1..Len(ref) : ref[i] \in RefChars

\* isValidGitRef.
isValidGitRef(ref) ==
  IF ref = Undefined \/ Len(ref) = 0 \/ Len(ref) > MaxRefLength THEN FALSE
  ELSE \A i \in 1..Len(ref) : ref[i] \in RefChars

\* One line of `git ... --name-status`: the status code and the tab-separated paths.
StatusLine(code, p1, p2) == [code |-> code, p1 |-> p1, p2 |-> p2]

RECURSIVE parseNameStatus(_)
\* parseNameStatus: a rename is reported under its new path.
parseNameStatus(lines) ==
  IF lines = <<>> THEN <<>>
  ELSE LET l == Head(lines) IN
       IF l.p1 = Undefined THEN parseNameStatus(Tail(lines))
       ELSE IF l.code[1] = "R" /\ l.p2 # Undefined
            THEN <<[path |-> l.p2, status |-> "renamed", oldPath |-> l.p1]>>
                   \o parseNameStatus(Tail(lines))
            ELSE <<[ path |-> l.p1,
                     status |-> IF l.code[1] = "R" THEN "renamed"
                                ELSE IF l.code = <<"A">> THEN "added"
                                ELSE IF l.code = <<"D">> THEN "deleted"
                                ELSE "modified",
                     oldPath |-> IF l.code[1] = "R" THEN l.p1 ELSE Undefined ]>>
                   \o parseNameStatus(Tail(lines))

\* What execGit resolves to: an error, or the lines of stdout.
GitError == [error |-> TRUE, stdout |-> <<>>]
GitOutput(lines) == [error |-> FALSE, stdout |-> lines]

\* A GitDiffResult.
DiffFailure == [success |-> FALSE, files |-> <<>>]
DiffOf(out) ==
  IF out.error THEN DiffFailure
  ELSE [success |-> TRUE, files |-> parseNameStatus(out.stdout)]

\* getStagedFiles, getUnstagedFiles: `git diff --cached`, `git diff`.
getStagedFiles(git) == DiffOf(git.cached)
getUnstagedFiles(git) == DiffOf(git.worktree)

\* getCommitFiles: the ref is validated before git is run.
getCommitFiles(commit, git) ==
  IF ~isValidGitRef(commit) THEN DiffFailure ELSE DiffOf(git.tree)

RECURSIVE MergeFiles(_, _)
MergeFiles(fileMap, files) ==
  IF files = <<>> THEN fileMap
  ELSE MergeFiles(MapSet(fileMap, Head(files).path, Head(files)), Tail(files))

\* getAllChangedFiles: staged and unstaged, merged by path.
getAllChangedFiles(git) ==
  IF ~getStagedFiles(git).success THEN getStagedFiles(git)
  ELSE IF ~getUnstagedFiles(git).success THEN getUnstagedFiles(git)
  ELSE [ success |-> TRUE,
         files |-> MapValues(MergeFiles(<<>>, getStagedFiles(git).files
                                              \o getUnstagedFiles(git).files)) ]

Threw == [threw |-> TRUE, success |-> FALSE, files |-> <<>>]
Returned(r) == [threw |-> FALSE, success |-> r.success, files |-> r.files]

\* getDiffForSource.
getDiffForSource(source, git, commit) ==
  CASE source = "staged" -> Returned(getStagedFiles(git))
    [] source = "commit" ->
         IF commit = Undefined \/ commit = <<>> THEN Threw
         ELSE Returned(getCommitFiles(commit, git))
    [] OTHER -> Returned(getAllChangedFiles(git))

\* ------------------------------------------------- verifyClaimAgainstDiff
normalizePathKeep(path) == path

\* ref.file.replace(/^\.\//, '').
normalizePath(path) ==
  IF Len(path) >= 2 /\ path[1] = "." /\ path[2] = "/" THEN SubSeq(path, 3, Len(path))
  ELSE path

\* verifyClaimAgainstDiff's loop body after `await search(...)`.
DiffSearched(v, result) ==
  LET variant == v.variants[v.i]
      refs == [k \in 1..Len(result.references) |->
                 [ file |-> normalizePath(result.references[k].file),
                   line |-> result.references[k].line,
                   variant |-> variant ]]
      raw == [k \in 1..Len(result.references) |->
                 [ file |-> result.references[k].file,
                   line |-> result.references[k].line,
                   variant |-> variant ]]
  IN IF result.success
     THEN [v EXCEPT !.i = @ + 1,
                    !.allReferences = @ \o refs,
                    !.found = @ \o raw,
                    !.filesWithReferences = @ \cup { refs[k].file : k \in 1..Len(refs) }]
     ELSE [v EXCEPT !.i = @ + 1, !.searchFailed = TRUE]

\* The body of the loop that collects the missed files.
MissedStep(missedFilesMap, modifiedPaths, ref) ==
  IF ref.file \in modifiedPaths THEN missedFilesMap
  ELSE IF MapHas(missedFilesMap, ref.file)
       THEN MapSet(missedFilesMap, ref.file,
                   [MapGet(missedFilesMap, ref.file) EXCEPT !.references = Append(@, ref)])
       ELSE MapSet(missedFilesMap, ref.file,
                   [file |-> ref.file, references |-> <<ref>>, wasModified |-> FALSE])

RECURSIVE MissedLoop(_, _, _)
MissedLoop(missedFilesMap, modifiedPaths, references) ==
  IF references = <<>> THEN missedFilesMap
  ELSE MissedLoop(MissedStep(missedFilesMap, modifiedPaths, Head(references)),
                  modifiedPaths, Tail(references))

\* verifyClaimAgainstDiff from the end of its search loop to its return.
DiffReturn(v) ==
  LET modifiedPaths == { v.modifiedFiles[k].path : k \in 1..Len(v.modifiedFiles) }
      missedFiles == MapValues(MissedLoop(<<>>, modifiedPaths, v.allReferences))
  IN [v EXCEPT !.pc = "done",
               !.outcome = "returned",
               !.result =
                 [ verified |-> Len(missedFiles) = 0,
                   modifiedFiles |-> v.modifiedFiles,
                   missedFiles |-> missedFiles,
                   allReferences |-> v.allReferences,
                   summary |->
                     [ totalFilesSearched |-> Cardinality(v.filesWithReferences),
                       filesWithMatches |-> Cardinality(v.filesWithReferences),
                       totalMatches |-> Len(v.allReferences),
                       filesModified |-> Len(v.modifiedFiles),
                       filesMissed |-> Len(missedFiles),
                       filesWithReferencesModified |->
                         Cardinality(v.filesWithReferences \cap modifiedPaths) ] ]]

NoDiffResult ==
  [ verified |-> FALSE, modifiedFiles |-> <<>>, missedFiles |-> <<>>,
    allReferences |-> <<>>,
    summary |-> [ totalFilesSearched |-> 0, filesWithMatches |-> 0, totalMatches |-> 0,
                  filesModified |-> 0, filesMissed |-> 0,
                  filesWithReferencesModified |-> 0 ] ]

NoGit == [cached |-> GitError, worktree |-> GitError, tree |-> GitError]

\* verifyClaimAgainstDiff up to `await getDiffForSource(...)`.
DiffCall(variants, source, commit, git) ==
  [ pc |-> "resolve", variants |-> variants, i |-> 1, source |-> source,
    commit |-> commit, git |-> git, modifiedFiles |-> <<>>, allReferences |-> <<>>,
    found |-> <<>>, filesWithReferences |-> {}, searchFailed |-> FALSE,
    outcome |-> "pending", result |-> NoDiffResult ]

DiffResolvedUnchecked(v) ==
  LET diffResult == getDiffForSource(v.source, v.git, v.commit) IN
  IF diffResult.threw
  THEN [v EXCEPT !.pc = "done", !.outcome = "threw", !.git = NoGit]
  ELSE [v EXCEPT !.pc = "search", !.modifiedFiles = diffResult.files, !.git = NoGit]

\* verifyClaimAgainstDiff after `await getDiffForSource(...)`: throw, or go on to
\* search with the modified files (the diff result is not used again).
DiffResolved(v) ==
  LET diffResult == getDiffForSource(v.source, v.git, v.commit) IN
  IF diffResult.threw \/ ~diffResult.success
  THEN [v EXCEPT !.pc = "done", !.outcome = "threw", !.git = NoGit]
  ELSE [v EXCEPT !.pc = "search", !.modifiedFiles = diffResult.files, !.git = NoGit]

\* What the repository may answer to the three queries.
CachedOutputs ==
  { GitError, GitOutput(<<>>), GitOutput(<<StatusLine(<<"M">>, FileA, Undefined)>>),
    GitOutput(<<StatusLine(<<"R", "1", "0", "0">>, FileOld, FileA)>>) }

WorktreeOutputs ==
  { GitError, GitOutput(<<>>), GitOutput(<<StatusLine(<<"M">>, FileB, Undefined)>>),
    GitOutput(<<StatusLine(<<"M">>, FileA, Undefined),
                StatusLine(<<"D">>, FileOld, Undefined)>>) }

TreeOutputs == { GitError, GitOutput(<<StatusLine(<<"A">>, FileB, Undefined)>>) }

Commits == { Undefined, <<"H", "E", "A", "D", "~", "1">>, <<"$", "(", "x", ")">> }

DiffSources == { "staged", "commit", "working", "all" }

InitDiff ==
  /\ WatchIdle
  /\ \E variants \in VariantLists, source \in DiffSources, commit \in Commits,
        cached \in CachedOutputs, worktree \in WorktreeOutputs, tree \in TreeOutputs :
       vr = DiffCall(variants, source, commit,
                     [cached |-> cached, worktree |-> worktree, tree |-> tree])

\* The diff query of verifyClaimAgainstDiff settles.
DiffResolve ==
  /\ vr.pc = "resolve"
  /\ vr' = DiffResolved(vr)
  /\ UNCHANGED watchVars

\* A search of verifyClaimAgainstDiff settles.
DiffSearch ==
  /\ vr.pc = "search"
  /\ vr.i <= Len(vr.variants)
  /\ \E result \in SearchResults : vr' = DiffSearched(vr, result)
  /\ UNCHANGED watchVars

\* verifyClaimAgainstDiff returns.
DiffDone ==
  /\ vr.pc = "search"
  /\ vr.i > Len(vr.variants)
  /\ vr' = DiffReturn(vr)
  /\ UNCHANGED watchVars

NextDiff == DiffResolve \/ DiffSearch \/ DiffDone

SpecDiff == InitDiff /\ [][NextDiff]_vars

\* ------------------------------------------------ git queries that take a ref
\* Fourth specification: one call of getCommitFiles, getDiffFiles, getCommitMessage
\* or of check-commit's own getCommitMessage, with a ref the user supplied.

\* Characters of the short refs: two the pattern allows at any place, two it
\* allows and git reads in a special way, two it rejects.
RefAlphabet == { "H", "7", "-", "~", ";", " " }

\* A ref of n characters "a".
LongRef(n) == [i \in 1..n |-> "a"]

\* The refs a caller may pass: every short string over RefAlphabet, and the two
\* strings around the length limit.
Refs ==
  UNION { [1..n -> RefAlphabet] : n \in 0..MaxRefChars }
    \cup { LongRef(MaxRefLength), LongRef(MaxRefLength + 1) }

Head1 == <<"H", "E", "A", "D">>

InvalidGitRef == <<"I","n","v","a","l","i","d"," ","g","i","t"," ","r","e","f",":"," ">>

Null == <<"null">>

Whitespace == { " ", "\n", "\t", "\r" }

RECURSIVE TrimStart(_)
TrimStart(str) ==
  IF str # <<>> /\ Head(str) \in Whitespace THEN TrimStart(Tail(str)) ELSE str

RECURSIVE TrimEnd(_)
TrimEnd(str) ==
  IF str # <<>> /\ str[Len(str)] \in Whitespace
  THEN TrimEnd(SubSeq(str, 1, Len(str) - 1))
  ELSE str

\* String.prototype.trim.
Trim(str) == TrimEnd(TrimStart(str))

\* The argument list of a spawned git: the fixed words, then the refs.
Argv(words, refs) == [words |-> words, refs |-> refs]

\* { success: false, files: [], error: `Invalid git ref: ${ref}` }.
InvalidRefResult(ref) ==
  [success |-> FALSE, files |-> <<>>, error |-> InvalidGitRef \o ref]

\* A query up to its first await: it returns at once (pc "done") or spawns git.
Spawned(v, argv) == [v EXCEPT !.pc = "git", !.spawned = Append(@, argv)]
ReturnedAtOnce(v, result) == [v EXCEPT !.pc = "done", !.result = result]

\* getCommitFiles up to `await execGit(...)`.
CommitFilesCall(v) ==
  IF ~isValidGitRef(v.ref) THEN ReturnedAtOnce(v, InvalidRefResult(v.ref))
  ELSE Spawned(v, Argv(<<"diff-tree", "--no-commit-id", "--name-status", "-r">>, <<v.ref>>))

\* getDiffFiles up to `await execGit(...)`.
DiffFilesCall(v) ==
  IF ~isValidGitRef(v.ref) THEN ReturnedAtOnce(v, InvalidRefResult(v.ref))
  ELSE IF ~isValidGitRef(v.toRef) THEN ReturnedAtOnce(v, InvalidRefResult(v.toRef))
  ELSE Spawned(v, Argv(<<"diff", "--name-status">>, <<v.ref, v.toRef>>))

\* getCommitMessage of git-utils up to `await execGit(...)`.
CommitMessageCall(v) ==
  IF ~isValidGitRef(v.ref) THEN ReturnedAtOnce(v, Null)
  ELSE Spawned(v, Argv(<<"log", "-1", "--format=%B">>, <<v.ref>>))

\* getCommitMessage of check-commit: spawn('git', ['log', '-1', '--format=%B', commit]).
CheckCommitMessageCall(v) ==
  Spawned(v, Argv(<<"log", "-1", "--format=%B">>, <<v.ref>>))

Queries == { "getCommitFiles", "getDiffFiles", "getCommitMessage", "check-commit" }

QueryCall(v) ==
  CASE v.query = "getCommitFiles" -> CommitFilesCall(v)
    [] v.query = "getDiffFiles" -> DiffFilesCall(v)
    [] v.query = "getCommitMessage" -> CommitMessageCall(v)
    [] v.query = "check-commit" -> CheckCommitMessageCall(v)

\* A query after git has closed.
QueryReturn(v, out) ==
  [v EXCEPT !.pc = "done",
            !.result =
              IF v.query \in { "getCommitFiles", "getDiffFiles" }
              THEN IF out.error
                   THEN [success |-> FALSE, files |-> <<>>, error |-> <<"g", "i", "t">>]
                   ELSE [success |-> TRUE, files |-> parseNameStatus(out.stdout),
                         error |-> Undefined]
              ELSE IF out.error THEN Null ELSE Trim(out.message)]

\* What git may answer: an error (not a repository, unknown revision, ...), or
\* its output: name-status lines, or the text of a commit message.
GitAnswers ==
  { [error |-> TRUE, stdout |-> <<>>, message |-> <<>>],
    [error |-> FALSE, stdout |-> <<StatusLine(<<"M">>, FileA, Undefined)>>,
     message |-> <<"f", "i", "x", "\n">>] }

InitGit ==
  /\ WatchIdle
  /\ \E query \in Queries, ref \in Refs, toRef \in { Head1, <<";">> }, swap \in BOOLEAN :
       /\ query # "getDiffFiles" => (toRef = Head1 /\ ~swap)
       /\ vr = [ pc |-> "call", query |-> query,
                 ref |-> IF swap THEN toRef ELSE ref,
                 toRef |-> IF swap THEN ref ELSE toRef,
                 spawned |-> <<>>, result |-> Undefined ]

\* The query is called and runs to its first await.
GitCall ==
  /\ vr.pc = "call"
  /\ vr' = QueryCall(vr)
  /\ UNCHANGED watchVars

\* The spawned git closes.
GitClose ==
  /\ vr.pc = "git"
  /\ \E out \in GitAnswers : vr' = QueryReturn(vr, out)
  /\ UNCHANGED watchVars

NextGit == GitCall \/ GitClose

SpecGit == InitGit /\ [][NextGit]_vars

\* ------------------------------------------------------------------ search
\* Fifth specification: one call of search, from spawn('rg', args) to the
\* events of the child process.

\* The lines ripgrep --json may write: matches (with and without a submatch),
\* the summary, a context line, and a line that is no JSON record.
MatchLine(path, line, start) == [type |-> "match", path |-> path, line |-> line, start |-> start]

OutLines ==
  { MatchLine(FileDotA, 1, 4), MatchLine(FileB, 2, -1),
    [type |-> "summary", searches_with_match |-> 1],
    [type |-> "context"], [type |-> "malformed"] }

Outputs == UNION { [1..n -> OutLines] : n \in 0..MaxOutLines }

HasMatch(output) == \E i \in 1..Len(output) : output[i].type = "match"

\* The ways the child may end: it cannot be spawned ('error', after which Node may
\* emit 'close' with the negative errno), or it closes with an exit code, or it is
\* killed by a signal (code null). ripgrep exits 0 with matches, 1 without.
NoCode == -100

ProcessEnds ==
  { [launch |-> l, events |-> ev, code |-> NoCode, stdout |-> <<>>, stderr |-> ""] :
      l \in {"ENOENT", "EACCES"}, ev \in { <<"error">>, <<"error", "close">> } }
  \cup { [launch |-> "ok", events |-> <<"close">>, code |-> 0, stdout |-> out, stderr |-> ""] :
           out \in { o \in Outputs : HasMatch(o) } }
  \cup { [launch |-> "ok", events |-> <<"close">>, code |-> 1, stdout |-> out, stderr |-> ""] :
           out \in { o \in Outputs : ~HasMatch(o) } }
  \cup { [launch |-> "ok", events |-> <<"close">>, code |-> c, stdout |-> out, stderr |-> e] :
           c \in {2, 3}, out \in Outputs, e \in {"", "regex parse error"} }
  \cup { [launch |-> "ok", events |-> <<"close">>, code |-> NoCode, stdout |-> out,
          stderr |-> ""] : out \in Outputs }

NotFoundError ==
  <<"ripgrep (rg) not found. Please install it: https://github.com/BurntSushi/ripgrep#installation">>

SpawnMessage(launch) == IF launch = "ENOENT" THEN "spawn rg ENOENT" ELSE "spawn rg EACCES"

SearchFailed(error) ==
  [success |-> FALSE, references |-> <<>>, filesSearched |-> 0, error |-> error]

RECURSIVE ParseLines(_, _)
\* parseRipgrepOutput's loop: a match becomes a Reference (column 1-indexed, 1 when
\* there is no submatch), every other line is skipped.
ParseLines(lines, variant) ==
  IF lines = <<>> THEN <<>>
  ELSE LET l == Head(lines) IN
       (IF l.type = "match"
        THEN <<[ file |-> l.path, line |-> l.line,
                 column |-> (IF l.start < 0 THEN 0 ELSE l.start) + 1,
                 variant |-> variant ]>>
        ELSE <<>>) \o ParseLines(Tail(lines), variant)

RECURSIVE SummaryCount(_, _)
SummaryCount(lines, n) ==
  IF lines = <<>> THEN n
  ELSE SummaryCount(Tail(lines),
                    IF Head(lines).type = "summary" THEN Head(lines).searches_with_match
                    ELSE n)

\* parseRipgrepOutput.
parseRipgrepOutput(output, variant) ==
  LET references == ParseLines(output, variant)
      filesWithMatches == { references[k].file : k \in 1..Len(references) }
  IN [ references |-> references,
       filesSearched |-> IF Cardinality(filesWithMatches) # 0
                         THEN Cardinality(filesWithMatches)
                         ELSE SummaryCount(output, 0) ]

\* The 'error' handler of search.
OnError(v) ==
  IF v.end.launch = "ENOENT" THEN SearchFailed(NotFoundError)
  ELSE SearchFailed(<<"Search failed: ", SpawnMessage(v.end.launch)>>)

\* The 'close' handler of search.
OnClose(v) ==
  IF v.end.code # NoCode /\ v.end.code >= 2
  THEN SearchFailed(<<IF v.end.stderr # "" THEN v.end.stderr
                      ELSE "Search failed with unknown error">>)
  ELSE [ success |-> TRUE,
         references |-> parseRipgrepOutput(v.end.stdout, v.pattern).references,
         filesSearched |-> parseRipgrepOutput(v.end.stdout, v.pattern).filesSearched,
         error |-> <<>> ]

ResolveLast(v, result) == [v EXCEPT !.settled = TRUE, !.result = result]

\* resolve(...) of the promise search returns: only the first call settles it.
Resolve(v, result) ==
  IF v.settled THEN v ELSE [v EXCEPT !.settled = TRUE, !.result = result]

\* The child emits its next event and the handler runs.
Handle(v) ==
  LET w == [v EXCEPT !.events = Tail(@),
                     !.pc = IF Len(v.events) = 1 THEN "done" ELSE "spawned"]
  IN IF Head(v.events) = "error" THEN Resolve(w, OnError(v)) ELSE Resolve(w, OnClose(v))

InitSearch ==
  /\ WatchIdle
  /\ \E end \in ProcessEnds, pattern \in VariantPool :
       vr = [ pc |-> "spawned", pattern |-> pattern, end |-> end, events |-> end.events,
              settled |-> FALSE, result |-> SearchFailed(<<>>) ]

\* The child emits 'error'.
SearchError ==
  /\ vr.pc = "spawned"
  /\ Head(vr.events) = "error"
  /\ vr' = Handle(vr)
  /\ UNCHANGED watchVars

\* The child emits 'close'.
SearchClose ==
  /\ vr.pc = "spawned"
  /\ Head(vr.events) = "close"
  /\ vr' = Handle(vr)
  /\ UNCHANGED watchVars

NextSearch == SearchError \/ SearchClose

SpecSearch == InitSearch /\ [][NextSearch]_vars

\* ------------------------------------------------------- context classifier
\* Sixth specification: one call of detectContext, and of isInsideString on
\* the text before the match.

\* Regular expressions over a string: a set of positions (the index of the next
\* character to read) is carried through the parts of a pattern.
AtLit(str, p, w) == p + Len(w) - 1 <= Len(str) /\ SubSeq(str, p, p + Len(w) - 1) = w
Lit(str, ps, w) == { p + Len(w) : p \in { q \in ps : AtLit(str, q, w) } }
OneOf(str, ps, chars) == { p + 1 : p \in { q \in ps : q <= Len(str) /\ str[q] \in chars } }
Star(str, ps, chars) ==
  { q \in 1..(Len(str) + 1) : \E p \in ps : p <= q /\ \A k \in p..(q - 1) : str[k] \in chars }
Plus(str, ps, chars) == Star(str, OneOf(str, ps, chars), chars)

\* String.prototype.includes.
Includes(str, w) == \E p \in 1..(Len(str) + 1) : AtLit(str, p, w)

\* \w and \s.
WordChars == Letters \cup Range(DigitChars) \cup {"_"}

UpperCase ==
  << "A", "B", "C", "D", "E", "F", "G", "H", "I", "J", "K", "L", "M", "N", "O", "P", "Q", "R",
     "S", "T", "U", "V", "W", "X", "Y", "Z" >>
LowerCase ==
  << "a", "b", "c", "d", "e", "f", "g", "h", "i", "j", "k", "l", "m", "n", "o", "p", "q", "r",
     "s", "t", "u", "v", "w", "x", "y", "z" >>

\* String.prototype.toLowerCase.
toLowerCase(str) ==
  [i \in 1..Len(str) |->
     IF \E k \in 1..26 : UpperCase[k] = str[i]
     THEN LowerCase[CHOOSE k \in 1..26 : UpperCase[k] = str[i]]
     ELSE str[i]]

\* IMPORT_PATTERNS, each tested from the start of the line.
ImportPatterns(l) ==
  LET start == Star(l, {1}, Whitespace)
      import == <<"i", "m", "p", "o", "r", "t">>
      from == <<"f", "r", "o", "m">>
      const == <<"c", "o", "n", "s", "t">>
      require == <<"r", "e", "q", "u", "i", "r", "e">>
      using == <<"u", "s", "i", "n", "g">>
      include == <<"#", "i", "n", "c", "l", "u", "d", "e">>
      constName == Plus(l, Plus(l, Lit(l, start, const), Whitespace), WordChars)
      equals == Lit(l, Star(l, constName, Whitespace), <<"=">>)
      required == Lit(l, Star(l, equals, Whitespace), require)
  IN << Plus(l, Lit(l, start, import), Whitespace),
        OneOf(l, Plus(l, Lit(l, start, from), Whitespace), {"'", "\""}),
        Lit(l, Star(l, required, Whitespace), <<"(">>),
        Lit(l, Star(l, Lit(l, start, require), Whitespace), <<"(">>),
        Plus(l, Lit(l, start, <<"u", "s", "e">>), Whitespace),
        Plus(l, Lit(l, start, using), Whitespace),
        OneOf(l, Star(l, Lit(l, start, include), Whitespace), {"<", "\""}) >>

\* isImportLine.
isImportLine(l) == \E k \in 1..Len(ImportPatterns(l)) : ImportPatterns(l)[k] # {}

\* COMMENT_PATTERNS.singleLine, tested from the start of the line.
SingleLinePatterns(l) ==
  LET start == Star(l, {1}, Whitespace)
  IN << Lit(l, start, <<"/", "/">>), Lit(l, start, <<"#">>), Lit(l, start, <<"-", "-">>),
        Lit(l, start, <<";">>), Lit(l, start, <<"%">>) >>

\* COMMENT_PATTERNS.blockStart, found anywhere in the line.
BlockStarts ==
  << <<"/", "*">>, <<"\"", "\"", "\"">>, <<"'", "'", "'">>, <<"<", "!", "-", "-">>,
     <<"{", "-">> >>

\* isCommentLine.
isCommentLine(l, ext) ==
  \/ \E k \in 1..Len(SingleLinePatterns(l)) : SingleLinePatterns(l)[k] # {}
  \/ \E k \in 1..Len(BlockStarts) : Includes(l, BlockStarts[k])
  \/ Lit(l, Star(l, {1}, Whitespace), <<"*">>) # {}

isInsideStringEscapeAnywhere(beforeMatch) ==
  LET Scan[i \in 0..Len(beforeMatch)] ==
        IF i = 0
        THEN [inDouble |-> FALSE, inSingle |-> FALSE, inTemplate |-> FALSE, escaped |-> FALSE]
        ELSE LET st == Scan[i - 1]
                 char == beforeMatch[i]
             IN IF st.escaped THEN [st EXCEPT !.escaped = FALSE]
                ELSE IF char = "\\" THEN [st EXCEPT !.escaped = TRUE]
                ELSE IF char = "\"" /\ ~st.inSingle /\ ~st.inTemplate
                     THEN [st EXCEPT !.inDouble = ~@]
                ELSE IF char = "'" /\ ~st.inDouble /\ ~st.inTemplate
                     THEN [st EXCEPT !.inSingle = ~@]
                ELSE IF char = Backtick /\ ~st.inDouble /\ ~st.inSingle
                     THEN [st EXCEPT !.inTemplate = ~@]
                ELSE st
  IN Scan[Len(beforeMatch)].inDouble \/ Scan[Len(beforeMatch)].inSingle
       \/ Scan[Len(beforeMatch)].inTemplate

\* isInsideString: the state after each character of the text before the match.
isInsideString(beforeMatch) ==
  LET Scan[i \in 0..Len(beforeMatch)] ==
        IF i = 0
        THEN [inDouble |-> FALSE, inSingle |-> FALSE, inTemplate |-> FALSE, escaped |-> FALSE]
        ELSE LET st == Scan[i - 1]
                 char == beforeMatch[i]
             IN IF st.escaped THEN [st EXCEPT !.escaped = FALSE]
                ELSE IF char = "\\" /\ (st.inDouble \/ st.inSingle \/ st.inTemplate)
                     THEN [st EXCEPT !.escaped = TRUE]
                ELSE IF char = "\"" /\ ~st.inSingle /\ ~st.inTemplate
                     THEN [st EXCEPT !.inDouble = ~@]
                ELSE IF char = "'" /\ ~st.inDouble /\ ~st.inTemplate
                     THEN [st EXCEPT !.inSingle = ~@]
                ELSE IF char = Backtick /\ ~st.inDouble /\ ~st.inSingle
                     THEN [st EXCEPT !.inTemplate = ~@]
                ELSE st
  IN Scan[Len(beforeMatch)].inDouble \/ Scan[Len(beforeMatch)].inSingle
       \/ Scan[Len(beforeMatch)].inTemplate

\* filePath.split('.').
RECURSIVE SplitDot(_, _)
SplitDot(str, part) ==
  IF str = <<>> THEN <<part>>
  ELSE IF Head(str) = "." THEN <<part>> \o SplitDot(Tail(str), <<>>)
  ELSE SplitDot(Tail(str), Append(part, Head(str)))

\* getFileExtension.
getFileExtension(filePath) ==
  LET parts == SplitDot(filePath, <<>>)
  IN IF Len(parts) > 1 THEN toLowerCase(parts[Len(parts)]) ELSE <<>>

\* isDocFile.
isDocFile(filePath) ==
  getFileExtension(filePath) \in
    { <<"m", "d">>, <<"m", "d", "x">>, <<"t", "x", "t">>,
      <<"r", "s", "t">>, <<"a", "d", "o", "c">> }

\* isTestFile.
isTestFile(filePath) ==
  LET lower == toLowerCase(filePath)
  IN \/ Includes(lower, <<".", "t", "e", "s", "t", ".">>)
     \/ Includes(lower, <<".", "s", "p", "e", "c", ".">>)
     \/ Includes(lower, <<"_", "t", "e", "s", "t", ".">>)
     \/ Includes(lower, <<"_", "_", "t", "e", "s", "t", "s", "_", "_">>)
     \/ Includes(lower, <<"/", "t", "e", "s", "t", "/">>)
     \/ Includes(lower, <<"/", "t", "e", "s", "t", "s", "/">>)

\* beforeMatch.match(/\/\/|#(?!\w)|\/\*/): whether the text before the match has
\* "//", "/*", or a "#" that no word character follows in that text.
inlineCommentMatch(beforeMatch) ==
  \E p \in 1..Len(beforeMatch) :
    \/ AtLit(beforeMatch, p, <<"/", "/">>)
    \/ AtLit(beforeMatch, p, <<"/", "*">>)
    \/ beforeMatch[p] = "#" /\ ~(p < Len(beforeMatch) /\ beforeMatch[p + 1] \in WordChars)

ContextInfo(context, priority) == [context |-> context, priority |-> priority]

\* line.slice(0, matchColumn).
SliceTo(line, matchColumn) ==
  SubSeq(line, 1, IF matchColumn < Len(line) THEN matchColumn ELSE Len(line))

\* detectContext.
detectContext(line, matchColumn, filePath) ==
  LET ext == getFileExtension(filePath)
      beforeMatch == SliceTo(line, matchColumn)
      lineStart == TrimStart(line)
  IN IF isImportLine(lineStart) THEN ContextInfo("import", "high")
     ELSE IF isCommentLine(lineStart, ext) THEN ContextInfo("comment", "low")
     ELSE IF isInsideString(beforeMatch)
          THEN IF isTestFile(filePath) THEN ContextInfo("string", "medium")
               ELSE ContextInfo("string", "low")
     ELSE IF isDocFile(filePath) THEN ContextInfo("comment", "low")
     ELSE IF inlineCommentMatch(beforeMatch) THEN ContextInfo("comment", "low")
     ELSE ContextInfo("code", "high")

\* The inputs of a call: a line made of an optional "use " in front of up to
\* MaxLineChars characters, a column in it, and the path of the file.
LineAlphabet == {"\"", "'", Backtick, "\\", "/", "#", "x"}
LinePrefixes == { <<>>, <<"u", "s", "e", " ">> }
LineBodies == UNION { [1..n -> LineAlphabet] : n \in 0..MaxLineChars }
ContextLines == { pre \o body : pre \in LinePrefixes, body \in LineBodies }
PathCode == <<"s", "r", "c", "/", "a", ".", "t", "s">>
PathTest == <<"s", "r", "c", "/", "a", ".", "t", "e", "s", "t", ".", "t", "s">>
PathDoc == <<"R", "E", "A", "D", "M", "E", ".", "m", "d">>
ContextPaths == {PathCode, PathTest, PathDoc}

NoContext == ContextInfo("none", "none")

ContextCall(line, matchColumn, filePath) ==
  [pc |-> "call", line |-> line, matchColumn |-> matchColumn, filePath |-> filePath,
   beforeMatch |-> <<>>, inside |-> FALSE, result |-> NoContext]

InitContext ==
  /\ WatchIdle
  /\ \E line \in ContextLines, filePath \in ContextPaths :
       \E matchColumn \in 0..Len(line) : vr = ContextCall(line, matchColumn, filePath)

\* A call of isInsideString on the text before the match.
InsideString ==
  /\ vr.pc = "call"
  /\ vr' = [vr EXCEPT !.pc = "scanned",
                      !.beforeMatch = SliceTo(vr.line, vr.matchColumn),
                      !.inside = isInsideString(SliceTo(vr.line, vr.matchColumn))]
  /\ UNCHANGED watchVars

\* A call of detectContext.
DetectContext ==
  /\ vr.pc = "call"
  /\ vr' = [vr EXCEPT !.pc = "done",
                      !.beforeMatch = SliceTo(vr.line, vr.matchColumn),
                      !.result = detectContext(vr.line, vr.matchColumn, vr.filePath)]
  /\ UNCHANGED watchVars

NextContext == InsideString \/ DetectContext

SpecContext == InitContext /\ [][NextContext]_vars

\* ------------------------------------------------------- variant generator
\* Seventh specification: one call of generateVariants.

IsLower(c) == \E k \in 1..26 : LowerCase[k] = c
IsUpper(c) == \E k \in 1..26 : UpperCase[k] = c

\* String.prototype.toUpperCase.
toUpperCase(str) ==
  [i \in 1..Len(str) |->
     IF IsLower(str[i]) THEN UpperCase[CHOOSE k \in 1..26 : LowerCase[k] = str[i]] ELSE str[i]]

\* String.prototype.split with a one-character separator.
RECURSIVE SplitChar(_, _, _)
SplitChar(str, sep, part) ==
  IF str = <<>> THEN <<part>>
  ELSE IF Head(str) = sep THEN <<part>> \o SplitChar(Tail(str), sep, <<>>)
  ELSE SplitChar(Tail(str), sep, Append(part, Head(str)))

\* String.prototype.split(/\s+/): one cut for each run of white space.
RECURSIVE SplitRuns(_, _, _)
SplitRuns(str, part, inRun) ==
  IF str = <<>> THEN <<part>>
  ELSE IF Head(str) \in Whitespace
       THEN IF inRun THEN SplitRuns(Tail(str), part, TRUE)
            ELSE <<part>> \o SplitRuns(Tail(str), <<>>, TRUE)
  ELSE SplitRuns(Tail(str), Append(part, Head(str)), FALSE)

\* replace(/([a-z])([A-Z])/g, '$1 $2'): a space at every step from a lower-case
\* to an upper-case letter.
RECURSIVE CamelBoundary(_, _)
CamelBoundary(str, i) ==
  IF i > Len(str) THEN <<>>
  ELSE <<str[i]>>
       \o (IF i < Len(str) /\ IsLower(str[i]) /\ IsUpper(str[i + 1]) THEN <<" ">> ELSE <<>>)
       \o CamelBoundary(str, i + 1)

\* replace(/([A-Z]+)([A-Z][a-z])/g, '$1 $2'): a space before the last letter of a
\* run of upper-case letters that a lower-case letter follows.
RECURSIVE AcronymBoundary(_, _)
AcronymBoundary(str, i) ==
  IF i > Len(str) THEN <<>>
  ELSE <<str[i]>>
       \o (IF i + 2 <= Len(str) /\ IsUpper(str[i]) /\ IsUpper(str[i + 1]) /\ IsLower(str[i + 2])
           THEN <<" ">> ELSE <<>>)
       \o AcronymBoundary(str, i + 1)

\* Array.prototype.filter((w) => w.length > 0).
NonEmptyWords(words) == SelectSeq(words, LAMBDA w : Len(w) > 0)

\* Array.prototype.map((w) => w.toLowerCase()).
LowerWords(words) == [i \in 1..Len(words) |-> toLowerCase(words[i])]

\* extractWords.
extractWords(term) ==
  IF Len(term) <= 1 THEN <<toLowerCase(term)>>
  ELSE IF Includes(term, <<"_">>) THEN NonEmptyWords(LowerWords(SplitChar(term, "_", <<>>)))
  ELSE IF Includes(term, <<"-">>) THEN NonEmptyWords(LowerWords(SplitChar(term, "-", <<>>)))
  ELSE NonEmptyWords(NonEmptyWords(LowerWords(
         SplitRuns(AcronymBoundary(CamelBoundary(term, 1), 1), <<>>, FALSE))))

\* Array.prototype.join.
RECURSIVE JoinWith(_, _)
JoinWith(words, sep) ==
  IF words = <<>> THEN <<>>
  ELSE IF Len(words) = 1 THEN words[1]
  ELSE words[1] \o sep \o JoinWith(Tail(words), sep)

\* w.charAt(0).toUpperCase() + w.slice(1).
UpperFirst(w) == IF w = <<>> THEN <<>> ELSE toUpperCase(<<w[1]>>) \o Tail(w)

\* toPascalCase.
toPascalCase(words) ==
  IF Len(words) = 0 THEN <<>>
  ELSE Join([i \in 1..Len(words) |->
               IF words[i] = <<>> THEN <<>>
               ELSE toUpperCase(<<words[i][1]>>) \o toLowerCase(Tail(words[i]))])

\* toCamelCase.
toCamelCase(words) ==
  IF Len(words) = 0 THEN <<>>
  ELSE toLowerCase(Head(words))
       \o Join([i \in 1..(Len(words) - 1) |-> UpperFirst(Tail(words)[i])])

\* toSnakeCase.
toSnakeCase(words) ==
  IF Len(words) = 0 THEN <<>> ELSE JoinWith(LowerWords(words), <<"_">>)

\* toScreamingSnakeCase.
toScreamingSnakeCase(words) ==
  IF Len(words) = 0 THEN <<>>
  ELSE JoinWith([i \in 1..Len(words) |-> toUpperCase(words[i])], <<"_">>)

\* toKebabCase.
toKebabCase(words) ==
  IF Len(words) = 0 THEN <<>> ELSE JoinWith(LowerWords(words), <<"-">>)

\* Set.prototype.add on a set kept in insertion order.
SetAdd(set, v) == IF v \in Range(set) THEN set ELSE Append(set, v)

RECURSIVE SetAddAll(_, _)
SetAddAll(set, vs) == IF vs = <<>> THEN set ELSE SetAddAll(SetAdd(set, Head(vs)), Tail(vs))

WithoutTermKeep(set, term) == set

\* Array.from(variants).filter((v) => v !== term).
WithoutTerm(set, term) == SelectSeq(set, LAMBDA v : v # term)

\* generateVariants.
generateVariants(term) ==
  LET words == extractWords(term)
      variants ==
        IF Len(words) > 0
        THEN SetAddAll(<<term>>,
               << toPascalCase(words), toCamelCase(words), toSnakeCase(words),
                  toScreamingSnakeCase(words), toKebabCase(words),
                  toLowerCase(Join(words)) >>)
        ELSE <<term>>
      variantArray == WithoutTerm(variants, term)
  IN [original |-> term, variants |-> variantArray, all |-> <<term>> \o variantArray]

\* The terms of a call: every string of up to MaxTermChars characters of two
\* letters in both cases, the two separators and a space.
TermAlphabet == {"a", "A", "b", "B", "_", "-", " "}
Terms == UNION { [1..n -> TermAlphabet] : n \in 0..MaxTermChars }

NoVariants == [original |-> Undefined, variants |-> <<>>, all |-> <<>>]

InitVariants ==
  /\ WatchIdle
  /\ \E term \in Terms : vr = [pc |-> "call", term |-> term, out |-> NoVariants]

GenerateVariants ==
  /\ vr.pc = "call"
  /\ vr' = [vr EXCEPT !.pc = "done", !.out = generateVariants(vr.term)]
  /\ UNCHANGED watchVars

NextVariants == GenerateVariants

SpecVariants == InitVariants /\ [][NextVariants]_vars

\* ------------------------------------------------------------ claim parser
\* Eighth specification: one call of parseClaim.

\* The arrow U+2192 of the patterns, one character.
Arrow == "ARROW"

Quotes == {"\"", "'", Backtick}

\* A regular expression is run as the backtracking matcher runs it: a step maps a
\* state of the match (the position of the next character and the groups captured
\* so far) to the states it can continue in, the one tried first in front, and
\* Then carries a list of states through a step in that order. The head of the
\* last list is the match that is found.
MatchAt(p) == [pos |-> p, old |-> <<>>, new |-> <<>>]
Then(states, F(_)) == Join([i \in 1..Len(states) |-> F(states[i])])

\* renamed?|changed? and refactored?, the longer alternative of each verb first as
\* the greedy d? tries it.
RenamedChanged ==
  << <<"r", "e", "n", "a", "m", "e", "d">>,
     <<"r", "e", "n", "a", "m", "e">>,
     <<"c", "h", "a", "n", "g", "e", "d">>,
     <<"c", "h", "a", "n", "g", "e">> >>
Refactored ==
  << <<"r", "e", "f", "a", "c", "t", "o", "r", "e", "d">>,
     <<"r", "e", "f", "a", "c", "t", "o", "r">> >>

\* A literal under the flag i.
AtLitCI(text, p, w) ==
  /\ p + Len(w) - 1 <= Len(text)
  /\ \A k \in 1..Len(w) : toLowerCase(<<text[p + k - 1]>>) = <<w[k]>>
LitCI(text, st, w) ==
  IF AtLitCI(text, st.pos, w) THEN <<[st EXCEPT !.pos = @ + Len(w)]>> ELSE <<>>

\* An alternation of literals, the first alternative tried first.
AltCI(text, st, ws) == Join([k \in 1..Len(ws) |-> LitCI(text, st, ws[k])])

\* The length of the run of characters of a class at a position.
RunLen(text, p, chars) ==
  CHOOSE n \in 0..(Len(text) + 1 - p) :
    /\ \A k \in 0..(n - 1) : text[p + k] \in chars
    /\ p + n > Len(text) \/ text[p + n] \notin chars

\* \s+, the longest run first.
SpacesPlus(text, st) ==
  LET n == RunLen(text, st.pos, Whitespace)
  IN [k \in 1..n |-> [st EXCEPT !.pos = st.pos + (n - k + 1)]]

\* ["'`]?, taking the quote first.
QuoteOpt(text, st) ==
  (IF st.pos <= Len(text) /\ text[st.pos] \in Quotes THEN <<[st EXCEPT !.pos = @ + 1]>>
   ELSE <<>>) \o <<st>>

\* (\w+) as the group of the old value, the longest run first.
WordOld(text, st) ==
  LET n == RunLen(text, st.pos, WordChars)
  IN [k \in 1..n |->
        [st EXCEPT !.pos = st.pos + (n - k + 1),
                   !.old = SubSeq(text, st.pos, st.pos + (n - k))]]

\* (\w+) as the group of the new value, the longest run first.
WordNew(text, st) ==
  LET n == RunLen(text, st.pos, WordChars)
  IN [k \in 1..n |->
        [st EXCEPT !.pos = st.pos + (n - k + 1),
                   !.new = SubSeq(text, st.pos, st.pos + (n - k))]]

\* (?:all\s+)?
OptAll(text, st) ==
  Then(LitCI(text, st, <<"a", "l", "l">>), LAMBDA s : SpacesPlus(text, s)) \o <<st>>

\* (?:references?\s+(?:to|of|from)\s+)?
OptReferences(text, st) ==
  LET word == AltCI(text, st, << <<"r", "e", "f", "e", "r", "e", "n", "c", "e", "s">>,
                                 <<"r", "e", "f", "e", "r", "e", "n", "c", "e">> >>)
      prep == Then(Then(word, LAMBDA s : SpacesPlus(text, s)),
                   LAMBDA s : AltCI(text, s, << <<"t", "o">>, <<"o", "f">>,
                                              <<"f", "r", "o", "m">> >>))
  IN Then(prep, LAMBDA s : SpacesPlus(text, s)) \o <<st>>

\* (?:to|->|=>) with the arrow U+2192 as second alternative.
ToArrow(text, st) ==
  AltCI(text, st, << <<"t", "o">>, <<Arrow>>, <<"-", ">">>, <<"=", ">">> >>)

\* ["'`]?(\w+)["'`]?\s+(?:to|...)\s+["'`]?(\w+)["'`]?, the tail of the first two
\* rename patterns.
OldToNew(text, states) ==
  LET s1 == Then(states, LAMBDA s : QuoteOpt(text, s))
      s2 == Then(s1, LAMBDA s : WordOld(text, s))
      s3 == Then(s2, LAMBDA s : QuoteOpt(text, s))
      s4 == Then(s3, LAMBDA s : SpacesPlus(text, s))
      s5 == Then(s4, LAMBDA s : ToArrow(text, s))
      s6 == Then(s5, LAMBDA s : SpacesPlus(text, s))
      s7 == Then(s6, LAMBDA s : QuoteOpt(text, s))
      s8 == Then(s7, LAMBDA s : WordNew(text, s))
  IN Then(s8, LAMBDA s : QuoteOpt(text, s))

\* CLAIM_PATTERNS[0] tried at one position.
RenamePattern0(text, p) ==
  LET s1 == AltCI(text, MatchAt(p),
              RenamedChanged \o Refactored)
      s2 == Then(s1, LAMBDA s : SpacesPlus(text, s))
      s3 == Then(s2, LAMBDA s : OptAll(text, s))
      s4 == Then(s3, LAMBDA s : OptReferences(text, s))
  IN OldToNew(text, s4)

\* CLAIM_PATTERNS[1] tried at one position.
RenamePattern1(text, p) ==
  LET s1 == AltCI(text, MatchAt(p), RenamedChanged)
      s2 == Then(s1, LAMBDA s : SpacesPlus(text, s))
      s3 == Then(s2, LAMBDA s : OptAll(text, s))
      s4 == Then(OldToNew(text, s3), LAMBDA s : SpacesPlus(text, s))
  IN Then(s4, LAMBDA s : AltCI(text, s,
                     << <<"e", "v", "e", "r", "y", "w", "h", "e", "r", "e">>,
                        <<"t", "h", "r", "o", "u", "g", "h", "o", "u", "t">>,
                        <<"a", "c", "r", "o", "s", "s">> >>))

\* CLAIM_PATTERNS[2] tried at one position.
RenamePattern2(text, p) ==
  LET s1 == Then(QuoteOpt(text, MatchAt(p)), LAMBDA s : WordOld(text, s))
      s2 == Then(s1, LAMBDA s : QuoteOpt(text, s))
      s3 == Then(s2, LAMBDA s : SpacesPlus(text, s))
      s4 == Then(s3, LAMBDA s : AltCI(text, s,
                     << <<"w", "a", "s">>, <<"h", "a", "s", " ", "b", "e", "e", "n">>,
                        <<"i", "s", " ", "n", "o", "w">> >>))
      s5 == Then(s4, LAMBDA s : SpacesPlus(text, s))
      s6 == Then(s5, LAMBDA s : AltCI(text, s, RenamedChanged))
      s7 == Then(s6, LAMBDA s : SpacesPlus(text, s))
      s8 == Then(s7, LAMBDA s :
                   Then(LitCI(text, s, <<"t", "o">>), LAMBDA t : SpacesPlus(text, t)) \o <<s>>)
      s9 == Then(s8, LAMBDA s : QuoteOpt(text, s))
      s10 == Then(s9, LAMBDA s : WordNew(text, s))
  IN Then(s10, LAMBDA s : QuoteOpt(text, s))

\* String.prototype.match without the flag g: the match at the leftmost position
\* that has one, as a list of no or one element.
MatchFirst(text, P(_, _)) ==
  LET starts == { p \in 1..(Len(text) + 1) : P(text, p) # <<>> }
  IN IF starts = {} THEN <<>>
     ELSE <<Head(P(text, CHOOSE p \in starts : \A q \in starts : p <= q))>>

\* The words one of which every template after the rename templates needs in the
\* text: the verbs of the remove, update and add templates and "no more".
LaterKeywords ==
  << <<"r", "e", "m", "o", "v", "e">>,
     <<"d", "e", "l", "e", "t", "e">>,
     <<"e", "l", "i", "m", "i", "n", "a", "t", "e">>,
     <<"g", "o", "t", " ", "r", "i", "d", " ", "o", "f">>,
     <<"n", "o", " ", "m", "o", "r", "e">>,
     <<"n", "o", " ", "l", "o", "n", "g", "e", "r", " ", "a", "n", "y">>,
     <<"u", "p", "d", "a", "t", "e">>,
     <<"r", "e", "p", "l", "a", "c", "e">>,
     <<"m", "i", "g", "r", "a", "t", "e">>,
     <<"c", "o", "n", "v", "e", "r", "t">>,
     <<"s", "w", "i", "t", "c", "h", "e">>,
     <<"m", "o", "v", "e">>,
     <<"a", "d", "d", "e">>,
     <<"c", "r", "e", "a", "t", "e">>,
     <<"i", "n", "t", "r", "o", "d", "u", "c", "e">> >>

\* Whether a template after the rename templates can match.
LaterTemplateCanMatch(text) ==
  \E k \in 1..Len(LaterKeywords), p \in 1..Len(text) : AtLitCI(text, p, LaterKeywords[k])

\* \b.
WordBoundary(text, p) ==
  (p > 1 /\ text[p - 1] \in WordChars) # (p <= Len(text) /\ text[p] \in WordChars)

\* /\b(?:...)\b/i.test(text).
HasWordCI(text, ws) ==
  \E p \in 1..(Len(text) + 1), k \in 1..Len(ws) :
    /\ WordBoundary(text, p)
    /\ AtLitCI(text, p, ws[k])
    /\ WordBoundary(text, p + Len(ws[k]))

\* text.match(/["'`]([^"'`]+)["'`]/g).map((q) => q.slice(1, -1)).
RECURSIVE QuotedValues(_, _)
QuotedValues(text, p) ==
  IF p > Len(text) THEN <<>>
  ELSE LET closes == { q \in (p + 2)..Len(text) : text[q] \in Quotes }
       IN IF text[p] \in Quotes /\ p + 1 <= Len(text) /\ text[p + 1] \notin Quotes
             /\ closes # {}
          THEN LET q == CHOOSE c \in closes : \A d \in closes : c <= d
               IN <<SubSeq(text, p + 1, q - 1)>> \o QuotedValues(text, q + 1)
          ELSE QuotedValues(text, p + 1)

\* A ParseResult; of the claim its action and its two values.
ParseOk(action, oldValue, newValue) ==
  [success |-> TRUE, action |-> action, oldValue |-> oldValue, newValue |-> newValue,
   error |-> Undefined]
ParseError(error) ==
  [success |-> FALSE, action |-> "none", oldValue |-> Undefined, newValue |-> Undefined,
   error |-> error]

\* updated?|replaced?|migrated? and added?|created? of trySimpleParse.
UpdatedReplaced ==
  << <<"u", "p", "d", "a", "t", "e", "d">>, <<"u", "p", "d", "a", "t", "e">>,
     <<"r", "e", "p", "l", "a", "c", "e", "d">>, <<"r", "e", "p", "l", "a", "c", "e">>,
     <<"m", "i", "g", "r", "a", "t", "e", "d">>, <<"m", "i", "g", "r", "a", "t", "e">> >>
AddedCreated ==
  << <<"a", "d", "d", "e", "d">>, <<"a", "d", "d", "e">>,
     <<"c", "r", "e", "a", "t", "e", "d">>, <<"c", "r", "e", "a", "t", "e">> >>

\* trySimpleParse; null is the empty list.
trySimpleParse(text) ==
  LET action ==
        IF HasWordCI(text, RenamedChanged) THEN "rename"
        ELSE IF HasWordCI(text, UpdatedReplaced)
             THEN "update"
        ELSE IF HasWordCI(text, AddedCreated) THEN "add"
        ELSE "remove"
      values == QuotedValues(text, 1)
  IN IF Len(values) > 0
     THEN IF action \in {"rename", "update"} /\ Len(values) >= 2
          THEN <<ParseOk(action, values[1], values[2])>>
          ELSE <<ParseOk("remove", values[1], Undefined)>>
     ELSE <<>>

EmptyClaimText == <<"Empty claim text">>

\* `Could not parse claim: "${trimmed.slice(0, 50)}${trimmed.length > 50 ? '...' : ''}"`.
CouldNotParse(trimmed) ==
  <<"Could not parse claim: \"">>
    \o SubSeq(trimmed, 1, IF Len(trimmed) < 50 THEN Len(trimmed) ELSE 50)
    \o (IF Len(trimmed) > 50 THEN <<"...">> ELSE <<>>) \o <<"\"">>

\* The result of a template after the rename templates, which the texts of this
\* specification never reach.
LaterTemplate == ParseOk("later", Undefined, Undefined)

\* The loop of parseClaim over the three rename templates: the first one that
\* matches with both groups non-empty gives the claim.
RenameTemplates(text) ==
  LET usable(m) == m # <<>> /\ m[1].old # <<>> /\ m[1].new # <<>>
      m0 == MatchFirst(text, RenamePattern0)
      m1 == MatchFirst(text, RenamePattern1)
      m2 == MatchFirst(text, RenamePattern2)
  IN IF usable(m0) THEN m0 ELSE IF usable(m1) THEN m1 ELSE IF usable(m2) THEN m2 ELSE <<>>

\* parseClaim.
parseClaim(text) ==
  LET trimmed == Trim(text)
      renamed == RenameTemplates(trimmed)
      simpleClaim == trySimpleParse(trimmed)
  IN IF trimmed = <<>> THEN ParseError(EmptyClaimText)
     ELSE IF renamed # <<>> THEN ParseOk("rename", renamed[1].old, renamed[1].new)
     ELSE IF LaterTemplateCanMatch(trimmed) THEN LaterTemplate
     ELSE IF simpleClaim # <<>> THEN simpleClaim[1]
     ELSE ParseError(CouldNotParse(trimmed))

\* The texts of a call: "renamed", a quoted value, "to", a quoted value, the values
\* of up to MaxValueChars characters that are word characters or not; and the
\* empty and the blank text.
ValueAlphabet == {"a", "B", "-", "."}
Values == UNION { [1..n -> ValueAlphabet] : n \in 1..MaxValueChars }
RenameVerbs ==
  { <<"r", "e", "n", "a", "m", "e", "d">>,
    <<"R", "e", "n", "a", "m", "e", "d">> }
Quoted(quote, value) == <<quote>> \o value \o <<quote>>
RenameText(verb, q1, first, q2, second) ==
  verb \o <<" ">> \o Quoted(q1, first) \o <<" ", "t", "o", " ">> \o Quoted(q2, second)

NoParse == ParseError(Undefined)

ParseCall(text, first, second) ==
  [pc |-> "call", text |-> text, first |-> first, second |-> second, result |-> NoParse]

InitParse ==
  /\ WatchIdle
  /\ \/ \E verb \in RenameVerbs, q1 \in Quotes, q2 \in Quotes :
          \E first \in Values, second \in Values :
          vr = ParseCall(RenameText(verb, q1, first, q2, second), first, second)
     \/ \E text \in { <<>>, <<" ", " ", " ">> } : vr = ParseCall(text, Undefined, Undefined)

ParseClaimCall ==
  /\ vr.pc = "call"
  /\ vr' = [vr EXCEPT !.pc = "done", !.result = parseClaim(vr.text)]
  /\ UNCHANGED watchVars

NextParse == ParseClaimCall

SpecParse == InitParse /\ [][NextParse]_vars

\* -------------------------------------------------------------- commands
\* Ninth specification: one run of a one-shot command. What the run is given by
\* its environment (whether rg --version succeeds, whether the directory is a
\* repository, what git log prints, what the verification returns, how many claims
\* parseMultipleClaims finds) is part of the call.

EXIT_CODES == [SUCCESS |-> 0, DISCREPANCIES |-> 1, ERROR |-> 2]

\* The exit code of a run that has not returned.
Running == NoCode

\* The claim texts given to verify and verify-diff.
ClaimTexts ==
  { <<>>, <<" ">>, <<"x">>,
    RenameText(<<"r", "e", "n", "a", "m", "e", "d">>, "\"", <<"a">>, "\"", <<"B">>) }

\* What a verification comes to: a result with its verified flag, or an exception.
Verification(verified) == [threw |-> FALSE, verified |-> verified]
VerificationThrew == [threw |-> TRUE, verified |-> FALSE]

\* The try block of runVerify and runVerifyDiff.
VerifiedExit(outcome) ==
  IF outcome.threw THEN EXIT_CODES.ERROR
  ELSE IF outcome.verified THEN EXIT_CODES.SUCCESS
  ELSE EXIT_CODES.DISCREPANCIES

\* runVerify.
runVerify(c) ==
  IF ~c.hasRipgrep THEN EXIT_CODES.ERROR
  ELSE IF ~parseClaim(c.claimText).success THEN EXIT_CODES.ERROR
  ELSE VerifiedExit(c.outcome)

\* runVerifyDiff.
runVerifyDiff(c) ==
  IF c.source = "commit" /\ c.commit = Undefined THEN EXIT_CODES.ERROR
  ELSE IF ~c.hasRipgrep THEN EXIT_CODES.ERROR
  ELSE IF ~c.inGitRepo THEN EXIT_CODES.ERROR
  ELSE IF ~parseClaim(c.claimText).success THEN EXIT_CODES.ERROR
  ELSE VerifiedExit(c.outcome)

\* runCheckCommit; results holds the verified flag of the result of each claim
\* that parseMultipleClaims found in the commit message.
runCheckCommit(c) ==
  IF ~c.hasRipgrep THEN EXIT_CODES.ERROR
  ELSE IF c.commitMessage = Null \/ c.commitMessage = <<>> THEN EXIT_CODES.ERROR
  ELSE IF Len(c.results) = 0 THEN EXIT_CODES.SUCCESS
  ELSE IF \A i \in 1..Len(c.results) : c.results[i] THEN EXIT_CODES.SUCCESS
  ELSE EXIT_CODES.DISCREPANCIES

\* runDetectClaims; found is the number of claims of parseMultipleClaims and single
\* whether parseClaim parses the whole text.
runDetectClaims(c) ==
  LET noArgument == c.text = Undefined \/ c.text = <<>>
      inputText == IF noArgument THEN c.stdin ELSE c.text
      claims == IF c.found = 0 /\ c.single THEN 1 ELSE c.found
  IN IF noArgument /\ c.isTTY THEN EXIT_CODES.ERROR
     ELSE IF inputText = <<>> \/ Trim(inputText) = <<>> THEN EXIT_CODES.ERROR
     ELSE IF claims > 0 THEN EXIT_CODES.SUCCESS
     ELSE EXIT_CODES.DISCREPANCIES

VerifyRuns ==
  { [command |-> "verify", hasRipgrep |-> rg, claimText |-> text, outcome |-> Verification(v)] :
      rg \in BOOLEAN, text \in ClaimTexts, v \in BOOLEAN }

VerifyDiffRuns ==
  { [command |-> "verify-diff", source |-> src, commit |-> commit, hasRipgrep |-> rg,
     inGitRepo |-> repo, claimText |-> text, outcome |-> outcome] :
      src \in {"all", "commit"}, commit \in {Undefined, Head1}, rg \in BOOLEAN,
      repo \in BOOLEAN, text \in ClaimTexts,
      outcome \in {Verification(TRUE), Verification(FALSE), VerificationThrew} }

CheckCommitRuns ==
  { [command |-> "check-commit", hasRipgrep |-> rg, commitMessage |-> message,
     results |-> results] :
      rg \in BOOLEAN, message \in {Null, <<>>, <<"m">>},
      results \in UNION { [1..n -> BOOLEAN] : n \in 0..MaxCommitClaims } }

DetectClaimsRuns ==
  { [command |-> "detect-claims", text |-> text, isTTY |-> tty, stdin |-> stdin,
     found |-> found, single |-> single] :
      text \in {Undefined, <<>>, <<" ">>, <<"t">>}, tty \in BOOLEAN,
      stdin \in {<<>>, <<"t">>}, found \in 0..MaxCommitClaims, single \in BOOLEAN }

InitCli ==
  /\ WatchIdle
  /\ \E c \in VerifyRuns \cup VerifyDiffRuns \cup CheckCommitRuns \cup DetectClaimsRuns :
       vr = [pc |-> "call", call |-> c, exitCode |-> Running]

RunVerify ==
  /\ vr.pc = "call" /\ vr.call.command = "verify"
  /\ vr' = [vr EXCEPT !.pc = "done", !.exitCode = runVerify(vr.call)]
  /\ UNCHANGED watchVars

RunVerifyDiff ==
  /\ vr.pc = "call" /\ vr.call.command = "verify-diff"
  /\ vr' = [vr EXCEPT !.pc = "done", !.exitCode = runVerifyDiff(vr.call)]
  /\ UNCHANGED watchVars

RunCheckCommit ==
  /\ vr.pc = "call" /\ vr.call.command = "check-commit"
  /\ vr' = [vr EXCEPT !.pc = "done", !.exitCode = runCheckCommit(vr.call)]
  /\ UNCHANGED watchVars

RunDetectClaims ==
  /\ vr.pc = "call" /\ vr.call.command = "detect-claims"
  /\ vr' = [vr EXCEPT !.pc = "done", !.exitCode = runDetectClaims(vr.call)]
  /\ UNCHANGED watchVars

NextCli == RunVerify \/ RunVerifyDiff \/ RunCheckCommit \/ RunDetectClaims

SpecCli == InitCli /\ [][NextCli]_vars

\* ------------------------------------------------------ parallel searches
\* searchMultiple: one search for each pattern, all started before any is awaited;
\* each search, when it settles, stores its result under its pattern and adds the
\* files of a successful result; the call returns when every search has settled.

\* The pattern lists of a call: any patterns, the same one twice included.
PatternLists == UNION { [1..n -> VariantPool] : n \in 0..MaxPatterns }

FilesOfFirst(result) ==
  IF result.success /\ Len(result.references) > 0
  THEN { result.references[1].file } ELSE {}

\* The files a settled search adds to allFiles.
FilesOf(result) ==
  IF result.success THEN { ref.file : ref \in Range(result.references) } ELSE {}

InitMulti ==
  /\ WatchIdle
  /\ \E patterns \in PatternLists :
       vr = [pc |-> "called", patterns |-> patterns, searches |-> {},
             settled |-> <<>>, settledAs |-> <<>>, results |-> <<>>,
             allFiles |-> {}, totalFilesSearched |-> -1]

\* patterns.map(async ...): every search is started, none is awaited yet.
StartSearches ==
  /\ vr.pc = "called"
  /\ vr' = [vr EXCEPT !.pc = "awaiting", !.searches = 1..Len(vr.patterns)]
  /\ UNCHANGED watchVars

\* The search of one pattern settles, with any result search can return.
SearchSettles ==
  /\ vr.pc = "awaiting"
  /\ \E i \in vr.searches, result \in SearchResults :
       vr' = [vr EXCEPT !.searches = @ \ {i},
                        !.settled = Append(@, i),
                        !.settledAs = Append(@, result),
                        !.results = MapSet(@, vr.patterns[i], result),
                        !.allFiles = @ \cup FilesOf(result)]
  /\ UNCHANGED watchVars

\* Promise.all resolves once every search has settled; the call returns.
SearchMultipleReturns ==
  /\ vr.pc = "awaiting"
  /\ vr.searches = {}
  /\ vr' = [vr EXCEPT !.pc = "returned",
                      !.totalFilesSearched = Cardinality(vr.allFiles)]
  /\ UNCHANGED watchVars

NextMulti == StartSearches \/ SearchSettles \/ SearchMultipleReturns

SpecMulti == InitMulti /\ [][NextMulti]_vars

\* ------------------------------------------------------------- debounce
\* handleChange under a clock: the FSWatcher delivers notifications, each of them
\* 'change' or 'rename'; setTimeout arms a timer for debounceMs later, clearTimeout
\* disarms it. A timer that is due runs before the next notification is delivered
\* (the event loop runs its timers before it polls for events).

WatchEventTypes == {"change", "rename"}
NoTimer == -1

handleChangeAnyEvent(timer, eventType, now) == now + DebounceTicks

\* FileWatcher.handleChange: the deadline of the debounce timer after the call.
handleChange(timer, eventType, now) ==
  IF eventType # "change" THEN timer ELSE now + DebounceTicks

InitDebounce ==
  /\ WatchIdle
  /\ vr = [pc |-> "watching", now |-> 0, timer |-> NoTimer, notifications |-> <<>>,
           runsAt |-> <<>>]

\* The FSWatcher delivers a notification.
Notification ==
  /\ Len(vr.notifications) < MaxNotifications
  /\ vr.timer # vr.now
  /\ \E eventType \in WatchEventTypes :
       vr' = [vr EXCEPT !.notifications = Append(@, [type |-> eventType, at |-> vr.now]),
                        !.timer = handleChange(vr.timer, eventType, vr.now)]
  /\ UNCHANGED watchVars

\* The debounce timer is due: its callback calls processChange.
DebounceFires ==
  /\ vr.timer = vr.now
  /\ vr' = [vr EXCEPT !.timer = NoTimer, !.runsAt = Append(@, vr.now)]
  /\ UNCHANGED watchVars

\* Time passes; a due timer has run.
Tick ==
  /\ vr.now < MaxTicks
  /\ vr.timer # vr.now
  /\ vr' = [vr EXCEPT !.now = @ + 1]
  /\ UNCHANGED watchVars

NextDebounce == Notification \/ DebounceFires \/ Tick

SpecDebounce == InitDebounce /\ [][NextDebounce]_vars

\* ------------------------------------------------------ the log in bytes
\* The watcher over a log that is text: a writer appends JSONL lines, each in one
\* or two writes; every write is followed by a 'change' notification. The log is
\* empty when start() reads it. processChange runs one at a time here.

Newline == "\n"

\* The JSON texts of two assistant messages.
LogLines == { <<"{", "1", "}">>, <<"{", "2", "}">> }

\* parseSessionLines over content.split('\n'): a line that JSON.parse accepts is a
\* message; a piece of a line is not JSON, the parse throws and the line is skipped.
ParsedLines(text) == SelectSeq(SplitChar(text, Newline, <<>>), LAMBDA l : l \in LogLines)

RECURSIVE EmitUnseen(_, _)
\* processChange's loop: emit 'message' for the messages whose key is new.
EmitUnseen(st, messages) ==
  IF messages = <<>> THEN st
  ELSE IF Head(messages) \in st.seen THEN EmitUnseen(st, Tail(messages))
  ELSE EmitUnseen([st EXCEPT !.seen = @ \cup {Head(messages)},
                             !.emitted = Append(@, Head(messages))],
                  Tail(messages))

InitChunks ==
  /\ WatchIdle
  /\ vr = [pc |-> "watching", disk |-> <<>>, rest |-> <<>>, written |-> 0,
           notified |-> FALSE, timer |-> FALSE, run |-> [pc |-> "idle", size |-> 0],
           lastSize |-> 0, lastContent |-> <<>>, seen |-> {}, emitted |-> <<>>]

\* The writer begins a line: its first write holds the first k characters.
BeginLine ==
  /\ vr.rest = <<>>
  /\ vr.written < MaxChunkLines
  /\ \E line \in LogLines : \E k \in 1..(Len(line) + 1) :
       vr' = [vr EXCEPT !.disk = @ \o SubSeq(Append(line, Newline), 1, k),
                        !.rest = SubSeq(Append(line, Newline), k + 1, Len(line) + 1),
                        !.written = @ + 1,
                        !.notified = TRUE]
  /\ UNCHANGED watchVars

\* The writer's second write holds the rest of the line.
FinishLine ==
  /\ vr.rest # <<>>
  /\ vr' = [vr EXCEPT !.disk = @ \o vr.rest, !.rest = <<>>, !.notified = TRUE]
  /\ UNCHANGED watchVars

\* handleChange for a 'change' notification.
ChunkNotified ==
  /\ vr.notified
  /\ vr' = [vr EXCEPT !.notified = FALSE, !.timer = TRUE]
  /\ UNCHANGED watchVars

\* The debounce timer fires: processChange awaits stat().
ChunkTimerFires ==
  /\ vr.timer
  /\ vr.run.pc = "idle"
  /\ vr' = [vr EXCEPT !.timer = FALSE, !.run = [pc |-> "stat", size |-> 0]]
  /\ UNCHANGED watchVars

\* processChange after stat(): return when the file did not grow.
ChunkStat ==
  /\ vr.run.pc = "stat"
  /\ vr' = [vr EXCEPT !.run = IF Len(vr.disk) <= vr.lastSize
                               THEN [pc |-> "idle", size |-> 0]
                               ELSE [pc |-> "read", size |-> Len(vr.disk)]]
  /\ UNCHANGED watchVars

\* processChange after readFile(): the new content is what follows lastContent.
ChunkRead ==
  /\ vr.run.pc = "read"
  /\ LET newContent == Slice(vr.disk, Len(vr.lastContent))
         st == EmitUnseen([seen |-> vr.seen, emitted |-> vr.emitted],
                          ParsedLines(newContent))
     IN vr' = [vr EXCEPT !.run = [pc |-> "idle", size |-> 0],
                         !.lastSize = vr.run.size,
                         !.lastContent = vr.disk,
                         !.seen = st.seen,
                         !.emitted = st.emitted]
  /\ UNCHANGED watchVars

NextChunks ==
  BeginLine \/ FinishLine \/ ChunkNotified \/ ChunkTimerFires \/ ChunkStat \/ ChunkRead

\* The writer finishes the line it began, and the event loop runs every callback
\* that is ready.
SpecChunks ==
  /\ InitChunks /\ [][NextChunks]_vars
  /\ WF_vars(FinishLine) /\ WF_vars(ChunkNotified) /\ WF_vars(ChunkTimerFires)
  /\ WF_vars(ChunkStat) /\ WF_vars(ChunkRead)

\* ------------------------------------------------------------------ claims
\* C1: at most one call of verifyClaim / verifyClaimAgainstDiff is in flight at any
\* time, and no verification is started before every earlier one has settled.
C1_AtMostOneInFlight ==
  /\ Len(inflight) <= 1
  /\ Len(started) <= Len(verifiedEvents) + Len(errorEvents) + 1

\* C1's case: a verification runs while a claim that arrived in a later message
\* (its processQueue call returned at the guard) waits in the queue.
C1_Witness ==
  /\ inflight = <<ClaimAB_C>>
  /\ verificationQueue = <<ClaimRmA>>
  /\ isVerifying

\* Position of an element in a sequence without repetitions (0 when absent).
PosIn(seq, x) == IF \E i \in 1..Len(seq) : seq[i] = x
                 THEN CHOOSE i \in 1..Len(seq) : seq[i] = x
                 ELSE 0

\* C2: with auto-verify on, verifications are started in the order of the 'claim'
\* events, and the 'verified' events come in that order too.
C2_Fifo ==
  autoVerify =>
    /\ Len(started) <= Len(claimEvents)
    /\ started = SubSeq(claimEvents, 1, Len(started))
    /\ \A i \in 1..Len(verifiedEvents) :
         /\ PosIn(started, verifiedEvents[i]) > 0
         /\ \A j \in 1..(i - 1) :
              PosIn(started, verifiedEvents[j]) < PosIn(started, verifiedEvents[i])

\* C2's case: claims of two messages; one is verified, the next is being verified,
\* and a third, which arrived while a verification ran, still waits.
C2_Witness ==
  /\ autoVerify
  /\ verifiedEvents = <<ClaimAB_C>>
  /\ inflight = <<ClaimRmB>>
  /\ verificationQueue = <<ClaimRmA>>

\* C3: a detected claim is emitted as a 'claim' event if and only if no claim
\* detected earlier in the session had the same (action, oldValue, newValue).
C3_EmittedIffNewTriple ==
  \A i \in 1..Len(detected) :
    detected[i].emitted <=>
      ~ \E j \in 1..(i - 1) : Triple(detected[j].claim) = Triple(detected[i].claim)

\* C4: a run of verifyClaim in which a search failed returns no verdict: it is
\* reported to the caller as failed.
C4_NoVerdictOnSearchFailure ==
  (vr.pc = "done" /\ vr.searchFailed) => vr.outcome # "returned"

\* C5: a returned VerificationResult has verified true exactly when its
\* remainingReferences, the deduplicated list after the optional priority filter,
\* is empty.
C5_VerifiedIffNoneRemain ==
  (vr.pc = "done" /\ vr.outcome = "returned") =>
    /\ vr.result.verified <=> (Len(vr.result.remainingReferences) = 0)
    /\ Range(vr.result.remainingReferences) \subseteq Range(vr.deduped)
    /\ vr.minPriority = "undefined" => vr.result.remainingReferences = vr.deduped

\* C5's case: references were found, the priority floor dropped all of them, and
\* the result is verified.
C5_Witness ==
  /\ vr.pc = "done"
  /\ vr.outcome = "returned"
  /\ vr.minPriority = "high"
  /\ Len(vr.deduped) = 2
  /\ vr.result.remainingReferences = <<>>
  /\ vr.result.verified

\* Two references to the same line of the same file.
SameLine(r1, r2) == r1.file = r2.file /\ r1.line = r2.line

\* C6: the deduplicated list has exactly one reference for each (file, line) pair
\* of the collected references and none for another pair; the one kept is the
\* first of the pair's references whose variant is of minimal length.
C6_OnePerLineShortestFirst ==
  vr.pc = "done" =>
    LET collected == vr.allReferences
        kept == vr.deduped
        Of(r) == { k \in 1..Len(collected) : SameLine(collected[k], r) }
        Shortest(r) == { k \in Of(r) :
                           \A m \in Of(r) :
                             Len(collected[k].variant) <= Len(collected[m].variant) }
    IN /\ \A k \in 1..Len(collected) :
            Cardinality({ i \in 1..Len(kept) : SameLine(kept[i], collected[k]) }) = 1
       /\ \A i \in 1..Len(kept) :
            /\ Of(kept[i]) # {}
            /\ \E k \in Shortest(kept[i]) :
                 /\ kept[i] = collected[k]
                 /\ \A m \in Shortest(kept[i]) : k <= m

\* C6's case: two variants of equal length matched the same line, a third line was
\* matched too, and the reference of the variant searched first is the one kept.
C6_Witness ==
  /\ vr.pc = "done"
  /\ Len(vr.deduped) >= 2
  /\ \E k1, k2 \in 1..Len(vr.allReferences) :
       /\ k1 < k2
       /\ SameLine(vr.allReferences[k1], vr.allReferences[k2])
       /\ vr.allReferences[k1].variant # vr.allReferences[k2].variant
       /\ Len(vr.allReferences[k1].variant) = Len(vr.allReferences[k2].variant)
       /\ \E i \in 1..Len(vr.deduped) : vr.deduped[i] = vr.allReferences[k1]

\* A path without its leading "./".
Stripped(path) ==
  IF Len(path) > 1 /\ SubSeq(path, 1, 2) = <<".", "/">>
  THEN [k \in 1..(Len(path) - 2) |-> path[k + 2]]
  ELSE path

\* C7: the result has exactly one MissedFile for each file, named without a
\* leading "./", that has a reference and is not in the modified set, with all
\* references of that file; none for a modified file; and verified is true
\* exactly when there is no MissedFile.
C7_MissedFiles ==
  (vr.pc = "done" /\ vr.outcome = "returned") =>
    LET modified == { vr.result.modifiedFiles[k].path :
                        k \in 1..Len(vr.result.modifiedFiles) }
        missedFiles == vr.result.missedFiles
        referenced == { Stripped(vr.found[k].file) : k \in 1..Len(vr.found) }
        RefsOf(f) ==
          LET hits == SelectSeq(vr.found, LAMBDA r : Stripped(r.file) = f)
          IN [k \in 1..Len(hits) |-> [hits[k] EXCEPT !.file = f]]
    IN /\ \A f \in referenced \ modified :
            Cardinality({ k \in 1..Len(missedFiles) : missedFiles[k].file = f }) = 1
       /\ \A k \in 1..Len(missedFiles) :
            /\ missedFiles[k].file \in referenced \ modified
            /\ missedFiles[k].references = RefsOf(missedFiles[k].file)
       /\ vr.result.verified <=> (missedFiles = <<>>)

\* C7's case: a.ts is modified, references are found in ./a.ts and in b.md (twice):
\* b.md is the one missed file and the result is not verified.
C7_Witness ==
  /\ vr.pc = "done"
  /\ vr.outcome = "returned"
  /\ { vr.result.modifiedFiles[k].path : k \in 1..Len(vr.result.modifiedFiles) } = {FileA}
  /\ \E k \in 1..Len(vr.found) : vr.found[k].file = FileDotA
  /\ Len(vr.result.missedFiles) = 1
  /\ vr.result.missedFiles[1].file = FileB
  /\ Len(vr.result.missedFiles[1].references) = 2
  /\ ~vr.result.verified

\* The paths a git query reports (a rename under its new path).
ChangedPaths(out) ==
  { IF out.stdout[k].p2 # Undefined THEN out.stdout[k].p2 ELSE out.stdout[k].p1 :
      k \in 1..Len(out.stdout) }

\* C8: the modified set is, for 'staged', the files that differ between index and
\* HEAD; for 'working', those that differ between working tree and index; for
\* 'all', the union of the two; for 'commit', the files the commit touched.
C8_ModifiedSetOfSource ==
  [][ (vr.pc = "resolve" /\ vr'.pc = "search") =>
        { vr'.modifiedFiles[k].path : k \in 1..Len(vr'.modifiedFiles) } =
          CASE vr.source = "staged" -> ChangedPaths(vr.git.cached)
            [] vr.source = "working" -> ChangedPaths(vr.git.worktree)
            [] vr.source = "all" ->
                 ChangedPaths(vr.git.cached) \cup ChangedPaths(vr.git.worktree)
            [] vr.source = "commit" -> ChangedPaths(vr.git.tree) ]_vars

\* The step in which the processChange run i returns from stat().
StatStep(i) ==
  /\ runs[i].pc = "stat"
  /\ \/ runs' = RemoveAt(runs, i)
     \/ /\ Len(runs') = Len(runs)
        /\ runs'[i].pc # "stat"
        /\ \A j \in 1..Len(runs) : j # i => runs'[j] = runs[j]

\* The step in which a processChange run at `pc` returns from readFile().
ReadStep(pc) == \E i \in 1..Len(runs) : runs[i].pc = pc /\ runs' = RemoveAt(runs, i)

\* C11: a change processed while the file is smaller than the last-known size
\* resynchronises: no 'message' (hence no claim) and no 'error' comes of it, the
\* recorded size becomes the size found, the recorded content the content read and
\* the seen messages those of that content; a later growth of the file is read from
\* the end of that content and its unseen assistant messages are emitted.
C11_ResyncOnTruncation ==
  [][ /\ \A i \in 1..Len(runs) :
           (StatStep(i) /\ Len(file) < lastSize) =>
             /\ Len(runs') = Len(runs)
             /\ runs'[i].pc = "resync"
             /\ lastSize' = Len(file)
             /\ detected' = detected
             /\ errorEvents' = errorEvents
      /\ ReadStep("resync") =>
           /\ lastContent' = file
           /\ seenMessages' = { messageKey(m) : m \in Range(extractAssistantMessages(file)) }
           /\ detected' = detected
           /\ claimEvents' = claimEvents
           /\ errorEvents' = errorEvents
      /\ (ReadStep("read") /\ resyncs > 0 /\ Len(lastContent) <= Len(file)
            /\ SubSeq(file, 1, Len(lastContent)) = lastContent) =>
           LET grown == extractAssistantMessages(SubSeq(file, Len(lastContent) + 1, Len(file)))
               unseen == SelectSeq(grown, LAMBDA m : messageKey(m) \notin seenMessages)
           IN /\ \A m \in Range(grown) : messageKey(m) \in seenMessages'
              /\ \A m \in Range(unseen) :
                   \A c \in Range(detectClaims(m.content)) :
                     \E k \in (Len(detected) + 1)..Len(detected') : detected'[k].claim = c
              /\ unseen = <<>> => detected' = detected
    ]_vars

\* C11's case: a log of one message, read at start, was truncated; the change was
\* resynchronised; a message appended afterwards has been emitted and its claims
\* detected.
C11_Witness ==
  /\ resyncs = 1
  /\ startClaims # {}
  /\ Len(file) = 1
  /\ lastContent = file
  /\ lastSize = 1
  /\ runs = <<>>
  /\ claimEvents # <<>>

\* A ref the rule rejects: empty, longer than 256 characters, or with a character
\* that is neither alphanumeric nor one of / _ . - ^ ~ @ :
RejectedRef(ref) ==
  \/ Len(ref) = 0
  \/ Len(ref) > 256
  \/ \E i \in 1..Len(ref) :
       ref[i] \notin Letters \cup Range(DigitChars) \cup {"/", "_", ".", "-", "^", "~", "@", ":"}

\* C12: getCommitFiles, getDiffFiles and getCommitMessage, given a ref the rule
\* rejects, return a failure (naming the invalid ref, or null for the message) and
\* spawn no git.
C12_InvalidRefRejectedBeforeSpawn ==
  ( /\ vr.pc # "call"
    /\ vr.query \in { "getCommitFiles", "getDiffFiles", "getCommitMessage" }
    /\ RejectedRef(vr.ref) \/ (vr.query = "getDiffFiles" /\ RejectedRef(vr.toRef)) ) =>
    /\ vr.pc = "done"
    /\ vr.spawned = <<>>
    /\ IF vr.query = "getCommitMessage" THEN vr.result = Null
       ELSE /\ ~vr.result.success
            /\ vr.result.files = <<>>
            /\ vr.result.error =
                 InvalidGitRef \o (IF RejectedRef(vr.ref) THEN vr.ref ELSE vr.toRef)

\* C12's case: getCommitFiles was called with a ref of 257 characters.
C12_Witness ==
  /\ vr.pc = "done"
  /\ vr.query = "getCommitFiles"
  /\ Len(vr.ref) = 257
  /\ vr.spawned = <<>>
  /\ ~vr.result.success

\* C13: no git is spawned with a user-supplied ref that begins with "-" in its
\* argument list.
C13_NoOptionReachesGit ==
  \A i \in 1..Len(vr.spawned) :
    \A k \in 1..Len(vr.spawned[i].refs) :
      vr.spawned[i].refs[k] = <<>> \/ vr.spawned[i].refs[k][1] # "-"

\* The references a tool output holds: one for each match record, in order.
MatchesOf(output, pattern) ==
  LET hits == SelectSeq(output, LAMBDA l : l.type = "match")
  IN [k \in 1..Len(hits) |->
        [ file |-> hits[k].path, line |-> hits[k].line,
          column |-> IF hits[k].start < 0 THEN 1 ELSE hits[k].start + 1,
          variant |-> pattern ]]

\* What search returns when the tool ran to an exit code.
ExitClassified ==
  /\ (vr.end.launch = "ok" /\ vr.end.code >= 2) =>
       /\ ~vr.result.success
       /\ vr.result.references = <<>>
       /\ vr.end.stderr # "" => vr.result.error = <<vr.end.stderr>>
  /\ (vr.end.launch = "ok" /\ vr.end.code = 1) =>
       vr.result.success /\ vr.result.references = <<>>
  /\ (vr.end.launch = "ok" /\ vr.end.code = 0) =>
       vr.result.success /\ vr.result.references = MatchesOf(vr.end.stdout, vr.pattern)

\* C14 as stated: a tool that cannot be launched gives a failure with the 'not
\* found' error and no references; exit code 2 or more a failure with the tool's
\* diagnostic text; exit code 1 a success without references; exit code 0 a success
\* with the parsed references.
C14_SearchOutcomes ==
  vr.pc = "done" =>
    /\ vr.end.launch # "ok" =>
         /\ ~vr.result.success
         /\ vr.result.references = <<>>
         /\ vr.result.error = NotFoundError
    /\ ExitClassified

\* C14, amended: the 'not found' error is given when the tool is not installed
\* (the spawn fails with ENOENT); any other failure to launch gives a failure
\* with the error 'Search failed: ' and the message of the spawn error, and no
\* references. The exit codes are classified as stated.
C14_SearchOutcomesAmended ==
  vr.pc = "done" =>
    /\ vr.end.launch = "ENOENT" =>
         /\ ~vr.result.success
         /\ vr.result.references = <<>>
         /\ vr.result.error = NotFoundError
    /\ vr.end.launch = "EACCES" =>
         /\ ~vr.result.success
         /\ vr.result.references = <<>>
         /\ vr.result.error = <<"Search failed: ", "spawn rg EACCES">>
    /\ ExitClassified

\* C14's case: the tool is not installed; the child emitted 'error' and then
\* 'close', and the result is the failure of the 'error' handler.
C14_Witness ==
  /\ vr.pc = "done"
  /\ vr.end.launch = "ENOENT"
  /\ vr.end.events = <<"error", "close">>
  /\ vr.result.error = NotFoundError

\* The resolution of the modified-file set fails: a git query of the source ends in
\* an error, the commit ref is invalid, or the source is 'commit' without a commit.
ResolutionFails(v) ==
  \/ v.source \in {"staged", "all"} /\ v.git.cached.error
  \/ v.source \in {"working", "all"} /\ v.git.worktree.error
  \/ v.source = "commit" /\
       (v.commit = Undefined \/ RejectedRef(v.commit) \/ v.git.tree.error)

\* C15: when the resolution of the modified-file set fails, verifyClaimAgainstDiff
\* throws before any search is run and returns no DiffVerificationResult.
C15_AbortOnDiffFailure ==
  [][ (vr.pc = "resolve" /\ ResolutionFails(vr)) =>
        /\ vr'.pc = "done"
        /\ vr'.outcome = "threw"
        /\ vr'.i = 1
        /\ vr'.found = <<>>
        /\ vr'.result = NoDiffResult ]_vars

\* C15's case: the source is 'commit' and the commit ref is invalid; the call has
\* thrown without a search.
C15_Witness ==
  /\ vr.pc = "done"
  /\ vr.outcome = "threw"
  /\ vr.source = "commit"
  /\ vr.commit = <<"$", "(", "x", ")">>
  /\ vr.found = <<>>

\* C9: no verification is started after stop() for a claim that was waiting in the
\* queue when stop() was called.
C9_QueueDroppedOnStop ==
  stopped =>
    \A i \in (startedAtStop + 1)..Len(started) : started[i] \notin Range(queueAtStop)

\* C10: a claim whose identity occurs in an assistant message that was in the log at
\* start is never emitted as a 'claim' event.
C10_StartClaimsNeverEmitted ==
  \A i \in 1..Len(claimEvents) : Triple(claimEvents[i]) \notin startClaims

\* Rule 5 as stated: "//" or "/*" lies before the match column, or a "#" does that
\* is not part of an identifier, no word character following it in the line.
InlineMarkerBefore(line, matchColumn) ==
  \E p \in 1..matchColumn :
    \/ p + 1 <= matchColumn /\ AtLit(line, p, <<"/", "/">>)
    \/ p + 1 <= matchColumn /\ AtLit(line, p, <<"/", "*">>)
    \/ line[p] = "#" /\ ~(p < Len(line) /\ line[p + 1] \in WordChars)

\* The decision order of detectContext, first hit wins.
DecisionOrder(line, matchColumn, filePath) ==
  IF isImportLine(TrimStart(line)) THEN ContextInfo("import", "high")
  ELSE IF isCommentLine(TrimStart(line), getFileExtension(filePath))
       THEN ContextInfo("comment", "low")
  ELSE IF isInsideString(SliceTo(line, matchColumn))
       THEN ContextInfo("string", IF isTestFile(filePath) THEN "medium" ELSE "low")
  ELSE IF isDocFile(filePath) THEN ContextInfo("comment", "low")
  ELSE IF InlineMarkerBefore(line, matchColumn) THEN ContextInfo("comment", "low")
  ELSE ContextInfo("code", "high")

\* C16: detectContext gives the result of the first rule that applies, in the order
\* import line, comment line, open string literal, documentation file, inline
\* comment marker before the match column, and (code, high) when none applies.
C16_FirstHitWins ==
  vr.pc = "done" => vr.result = DecisionOrder(vr.line, vr.matchColumn, vr.filePath)

\* The scan as stated: at most one kind of string is open; a quote opens its kind
\* when nothing is open and closes it when its own kind is open; a backslash in an
\* open string makes the next character inert.
RECURSIVE OpenAtEnd(_, _, _)
OpenAtEnd(text, open, inert) ==
  IF text = <<>> THEN open
  ELSE IF inert THEN OpenAtEnd(Tail(text), open, FALSE)
  ELSE IF Head(text) = "\\" THEN OpenAtEnd(Tail(text), open, open # "none")
  ELSE IF Head(text) \in {"\"", "'", Backtick}
       THEN OpenAtEnd(Tail(text),
                      IF open = "none" THEN Head(text)
                      ELSE IF open = Head(text) THEN "none" ELSE open,
                      FALSE)
  ELSE OpenAtEnd(Tail(text), open, FALSE)

\* C17: the match is inside a string exactly when the left-to-right scan of the
\* text before it ends with a string open, quotes of another kind and escaped
\* characters being inert and a backslash outside a string having no effect.
C17_StringScan ==
  vr.pc = "scanned" => (vr.inside <=> OpenAtEnd(vr.beforeMatch, "none", FALSE) # "none")

\* An escaped backslash before the closing quote: the string is closed.
C17_Witness ==
  /\ vr.pc = "scanned"
  /\ vr.beforeMatch = <<"\"", "\\", "\\", "\"">>
  /\ ~vr.inside

NoDuplicates(seq) == \A i, j \in 1..Len(seq) : seq[i] = seq[j] => i = j

\* C18: for every term, the empty one, a single character and terms with
\* separators included, generateVariants returns original = term, all[0] = term,
\* no duplicate in all, the term not among variants, and all = [term] ++ variants.
C18_VariantSet ==
  vr.pc = "done" =>
    /\ vr.out.original = vr.term
    /\ Len(vr.out.all) >= 1 /\ vr.out.all[1] = vr.term
    /\ NoDuplicates(vr.out.all)
    /\ vr.term \notin Range(vr.out.variants)
    /\ vr.out.all = <<vr.term>> \o vr.out.variants

\* A term with a separator whose Pascal-case and camel-case spellings differ from it.
C18_Witness ==
  /\ vr.pc = "done"
  /\ vr.term = <<"a", "_", "B">>
  /\ vr.out.all = << <<"a", "_", "B">>, <<"A", "B">>, <<"a", "B">>, <<"a", "_", "b">>,
                     <<"A", "_", "B">>, <<"a", "-", "b">>, <<"a", "b">> >>

\* C19: for every text of two quoted values joined by "renamed ... to", parseClaim
\* succeeds with the action rename, the first quoted value as oldValue and the
\* second as newValue, whatever characters the values contain.
C19_QuotedRename ==
  vr.pc = "done" /\ vr.first # Undefined =>
    /\ vr.result.success
    /\ vr.result.action = "rename"
    /\ vr.result.oldValue = vr.first
    /\ vr.result.newValue = vr.second

\* The runtime errors of a run: the search tool is missing, an argument is missing
\* or cannot be parsed, the repository cannot be read, the verification throws.
RuntimeError(c) ==
  IF c.command = "verify"
  THEN ~c.hasRipgrep \/ ~parseClaim(c.claimText).success
  ELSE IF c.command = "verify-diff"
  THEN \/ c.source = "commit" /\ c.commit = Undefined
       \/ ~c.hasRipgrep \/ ~c.inGitRepo
       \/ ~parseClaim(c.claimText).success
       \/ c.outcome.threw
  ELSE IF c.command = "check-commit"
  THEN ~c.hasRipgrep \/ c.commitMessage \in {Null, <<>>}
  ELSE \/ c.text \in {Undefined, <<>>} /\ (c.isTTY \/ Trim(c.stdin) = <<>>)
       \/ c.text \notin {Undefined, <<>>} /\ Trim(c.text) = <<>>

\* The claim or claims were verified, or claims were found.
VerifiedOrFound(c) ==
  IF c.command \in {"verify", "verify-diff"} THEN c.outcome.verified
  ELSE IF c.command = "check-commit"
  THEN Len(c.results) > 0 /\ \A i \in 1..Len(c.results) : c.results[i]
  ELSE c.found > 0 \/ c.single

\* C20: every one-shot command returns 2 on a runtime error, else 0 when the
\* claims were verified or claims were found, else (discrepancies, or no claims
\* found) 1.
C20_ExitCodes ==
  vr.pc = "done" =>
    vr.exitCode = IF RuntimeError(vr.call) THEN 2
                  ELSE IF VerifiedOrFound(vr.call) THEN 0
                  ELSE 1

\* C21: two calls of verifyClaim with the same claim and options, the tool finding
\* the same matches for each pattern, return the same set of remainingReferences
\* and the same verified flag.
C21_SameResultWhenRunAgain ==
  vr.pc = "done" =>
    /\ Range(vr.first.remainingReferences) = Range(vr.second.remainingReferences)
    /\ vr.first.verified = vr.second.verified

\* The tool wrote its matches in another order in the second run, and the
\* references came out in another order.
C21_Witness ==
  /\ vr.pc = "done"
  /\ Len(vr.first.remainingReferences) = 2
  /\ vr.first.remainingReferences # vr.second.remainingReferences

\* A priority ranks at or above a floor under high > medium > low.
AtOrAbove(priority, floor) ==
  \/ floor = "low"
  \/ floor = "medium" /\ priority \in {"medium", "high"}
  \/ floor = "high" /\ priority = "high"

\* C22: with a minimum-priority floor, remainingReferences consists of exactly the
\* deduplicated references whose priority ranks at or above the floor, a reference
\* without priority counting as high; the references are deduplicated first.
C22_FloorAfterDedup ==
  (vr.pc = "done" /\ vr.outcome = "returned" /\ vr.minPriority # "undefined") =>
    /\ vr.deduped = deduplicateReferences(vr.allReferences)
    /\ vr.result.remainingReferences =
         SelectSeq(vr.deduped,
                   LAMBDA ref : AtOrAbove(IF ref.priority = "undefined" THEN "high"
                                          ELSE ref.priority,
                                          vr.minPriority))

\* A floor of medium that keeps one deduplicated reference and drops another.
C22_Witness ==
  /\ vr.pc = "done"
  /\ vr.outcome = "returned"
  /\ vr.minPriority = "medium"
  /\ Len(vr.deduped) = 2
  /\ Len(vr.result.remainingReferences) = 1
  /\ vr.result.remainingReferences[1].priority = "medium"

\* C25: searchMultiple starts a search for every pattern before any of them
\* settles; whatever the order in which they settle, the returned map has one entry
\* for each distinct pattern, holding a result of a search of that pattern, and
\* totalFilesSearched is the number of distinct files in the references of the
\* successful searches, a failed search adding none.
C25_ParallelSearches ==
  /\ vr.pc = "awaiting" =>
       vr.searches \cup Range(vr.settled) = 1..Len(vr.patterns)
  /\ vr.pc = "returned" =>
       /\ Len(vr.settled) = Len(vr.patterns)
       /\ { vr.results[k].key : k \in 1..Len(vr.results) } = Range(vr.patterns)
       /\ \A j, k \in 1..Len(vr.results) :
            vr.results[j].key = vr.results[k].key => j = k
       /\ \A k \in 1..Len(vr.results) :
            \E n \in 1..Len(vr.settled) :
              /\ vr.patterns[vr.settled[n]] = vr.results[k].key
              /\ vr.settledAs[n] = vr.results[k].value
       /\ vr.totalFilesSearched =
            Cardinality({ f \in {FileA, FileB, FileDotA} :
              \E n \in 1..Len(vr.settledAs) :
                /\ vr.settledAs[n].success
                /\ \E r \in 1..Len(vr.settledAs[n].references) :
                     vr.settledAs[n].references[r].file = f })

\* Two patterns whose searches settle in the reverse of their start order, both
\* matching in b.md and one of them in a second file as well.
C25_Witness ==
  /\ vr.pc = "returned"
  /\ vr.settled = <<2, 1>>
  /\ vr.patterns[1] # vr.patterns[2]
  /\ Len(vr.settledAs[1].references) = 1
  /\ Len(vr.settledAs[2].references) = 2
  /\ FileB \in FilesOf(vr.settledAs[1]) \cap FilesOf(vr.settledAs[2])
  /\ vr.totalFilesSearched = 2

\* The keys the watcher has read: those of the file as start() or the last
\* resynchronisation read it, and those of the messages emitted since.
KeysRead ==
  fullRead.keys \cup
  { messageKey(messageEvents[k]) : k \in (fullRead.at + 1)..Len(messageEvents) }

\* C24: a 'message' event is emitted only for a message whose key was neither in
\* the file when start() or the last resynchronisation read it nor emitted since,
\* so appending a message a second time adds no second event for it.
C24_MessageOnlyIfUnseen ==
  [][ \A k \in (Len(messageEvents) + 1)..Len(messageEvents') :
        /\ messageKey(messageEvents'[k]) \notin KeysRead
        /\ \A j \in (Len(messageEvents) + 1)..(k - 1) :
             messageKey(messageEvents'[j]) # messageKey(messageEvents'[k]) ]_vars

\* The same line appended twice after start, read by the watcher, one event.
C24_Witness ==
  /\ startPc = "done"
  /\ fullRead.keys = {}
  /\ Len(file) = 2
  /\ file[1] = file[2]
  /\ lastContent = file
  /\ messageEvents = <<file[1]>>

\* C28: at every moment claimsVerified is the number of detected claims whose
\* verification has finished with a result (a claim in flight, failed with an error
\* or never queued is not counted), and claimsPending is the number of claims
\* queued or being verified.
C28_StatsCountFinished ==
  /\ getStats.claimsVerified = Len(verifiedEvents)
  /\ getStats.claimsPending = Len(verificationQueue) + Len(inflight)

\* The claims pushed onto the queue so far: those still queued and those shifted.
Enqueued == Len(verificationQueue) + Len(started)

\* C29: once stop() has returned no 'message' event and no 'claim' event is
\* emitted and no claim is pushed onto the queue, whatever was pending at the stop.
C29_QuietAfterStop ==
  [][ stopped => /\ messageEvents' = messageEvents
                 /\ claimEvents' = claimEvents
                 /\ Enqueued' = Enqueued ]_vars

\* C30: on a log that is only appended to, lastSize and lastContent never move
\* back to a shorter state of the file, whatever the interleaving of overlapping
\* processChange runs, and no message is emitted twice.
C30_NeverMovesBack ==
  [][ truncs' = 0 =>
        /\ lastSize' >= lastSize
        /\ Len(lastContent') >= Len(lastContent)
        /\ \A j, k \in 1..Len(messageEvents') :
             messageKey(messageEvents'[j]) = messageKey(messageEvents'[k]) => j = k ]_vars

\* The claims a message of the log can hold.
LogClaims == UNION { Range(detectClaims(line.content)) : line \in Lines }

\* The events that answer a claim: its 'verified' events and its 'error' events.
Answers(claim) ==
  Len(SelectSeq(verifiedEvents, LAMBDA c : c = claim)) +
  Len(SelectSeq(errorEvents, LAMBDA c : c = claim))

\* C27: with auto-verify on and every verification terminating, every claim pushed
\* onto the queue is eventually answered by one 'verified' or one 'error' event,
\* also when verifications before it were rejected; the worker holds isVerifying
\* exactly while a verification is in flight, so that it is false again when the
\* queue has been drained.
C27_QueueIsDrained ==
  /\ [](isVerifying <=> inflight # <<>>)
  /\ [](~isVerifying => verificationQueue = <<>>)
  /\ \A claim \in LogClaims :
       /\ [](Answers(claim) <= 1)
       /\ (claim \in Range(verificationQueue) \cup Range(inflight))
            ~> (Answers(claim) = 1 /\ claim \notin Range(verificationQueue) \cup Range(inflight))

\* A rejected verification followed by a resolved one for the claim queued behind
\* it, the worker idle again.
C27_Witness ==
  /\ autoVerify
  /\ Len(started) = 2
  /\ errorEvents = <<started[1]>>
  /\ verifiedEvents = <<started[2]>>
  /\ ~isVerifying
  /\ verificationQueue = <<>>

\* The 'change' notifications that end a burst: no later 'change' notification
\* arrived less than debounceMs after them.
BurstEnds ==
  { k \in 1..Len(vr.notifications) :
      /\ vr.notifications[k].type = "change"
      /\ \A j \in (k + 1)..Len(vr.notifications) :
           vr.notifications[j].type = "change" =>
             vr.notifications[j].at >= vr.notifications[k].at + DebounceTicks }

\* The bursts whose quiet time of debounceMs has passed.
BurstsOver ==
  { k \in BurstEnds :
      \/ vr.notifications[k].at + DebounceTicks < vr.now
      \/ vr.notifications[k].at + DebounceTicks = vr.now /\ vr.timer # vr.now }

\* C26: every burst of 'change' notifications, each less than debounceMs after the
\* one before, starts exactly one processChange run, debounceMs after the last
\* notification of the burst; notifications of another type start no run and do not
\* move the timer.
C26_OneRunPerBurst ==
  /\ Len(vr.runsAt) = Cardinality(BurstsOver)
  /\ \A i, j \in 1..Len(vr.runsAt) : i < j => vr.runsAt[i] < vr.runsAt[j]
  /\ \A k \in BurstsOver :
       \E i \in 1..Len(vr.runsAt) : vr.runsAt[i] = vr.notifications[k].at + DebounceTicks

\* Two 'change' notifications one tick apart and a 'rename' after them: one run,
\* debounceMs after the second 'change'.
C26_Witness ==
  /\ Len(vr.notifications) = 3
  /\ vr.notifications[1] = [type |-> "change", at |-> 0]
  /\ vr.notifications[2] = [type |-> "change", at |-> 1]
  /\ vr.notifications[3] = [type |-> "rename", at |-> 2]
  /\ vr.runsAt = <<1 + DebounceTicks>>
  /\ vr.now = MaxTicks

\* C23: every assistant message appended to the log after start is eventually
\* emitted as a 'message' event, however the bytes of its line are divided
\* between the writes that the watcher is notified of.
C23_EveryMessageEmitted ==
  \A line \in LogLines :
    (line \in Range(ParsedLines(vr.disk))) ~> (line \in Range(vr.emitted))

====
